---- MODULE Spec2Model ----
(***************************************************************************)
(* Model of the policy compiler of NLP-Based-Networking: the alias         *)
(* registry (backend/alias_manager.py), alias substitution and role        *)
(* assignment (backend/nlp.py), target/chain resolution                    *)
(* (backend/policy_components/rule_interpreter.py) and command generation  *)
(* (policy_engine.py); and of what carries its commands to the devices:    *)
(* the admin GUI's policy panel and backend buttons (admin_app), the       *)
(* backend's threads (backend/admin_connect.py), the device's discovery    *)
(* client (device_connect.py), its command receiver and its executor       *)
(* (device_app).                                                           *)
(*                                                                         *)
(* Strings the program inspects character by character (alias names,       *)
(* addresses stored in the registry, policy text) are sequences of         *)
(* one-character strings.  Python's None is NoneT among such sequences.    *)
(***************************************************************************)
EXTENDS Integers, Sequences, FiniteSets, TLC

VARIABLES
    aliases_to_ip,   \* _aliases_to_ip: insertion-ordered dict name -> address
    ip_to_aliases,   \* _ip_to_aliases: insertion-ordered dict address -> name
    last_call,       \* the last registry call made and what it returned
    stage,           \* position of the compile pipeline for the current clause
    doc,             \* tokens of the clause handed to parse_single
    nlp_rule,        \* dict returned by parse_single (or built by a caller)
    rule_origin,     \* "parsed": backend/nlp.py; "legacy": nlp.py; "direct": a caller's
    target_explicit, \* history: the clause named its target with on/at
    preferred_target_ip,  \* the caller's preferred target, NoneS if absent
    interpreted,     \* result of determine_final_target_and_chain
    generated,       \* tuple appended by parse_and_generate_commands
    pc,              \* per thread: the line of the registry call it is at
    call,            \* per thread: the registry call it is making
    loc,             \* per thread: alias_name_lower, old_alias, old_ip
    ret,             \* per thread: what its call returned or raised
    start_reg,       \* history: the two dicts when the first call began
    snapshot,        \* the dict a concurrent get_all_aliases() returned
    snapshot_during, \* history: the snapshot was taken while a call ran
    resolve_stage,   \* "none", "once", "twice": calls of the preprocessor
    raw_text,        \* the text given to preprocess_and_resolve_aliases
    resolved_text,   \* what it returned
    resolved_again,  \* what it returned when given resolved_text
    cmds_pc,         \* parse_commands: "idle", "loop" or "returned"
    sents,           \* the sentences of the resolved text (doc.sents)
    sent_i,          \* the sentence the loop is at
    parse_single_calls, \* history: the arguments of the parse_single calls
    parsed_rules,    \* the list parse_commands builds and returns
    services_file,   \* services.json: "ok", "missing", "unparsable", "unreadable"
    service_mappings,   \* service_mapper._service_mappings, the module cache
    load_failed,     \* history: a load of services.json has failed
    mapper_call,     \* the last call of service_mapper or of the builder
    params_returned, \* what the last get_service_params call returned
    interpreted_rule,   \* the rule given to the last build_commands call
    commands_for_this_rule,  \* what that call returned
    reg_before,      \* history: the two dicts when the last registry call began
    log_records,     \* the records the last registry call gave to the logger
    flight_pc,       \* one preprocess call: "idle", "substituting", "returned"
    flight_text,     \* the text that call was given
    flight_aliases,  \* its local all_aliases: the object get_all_aliases() returned
    reg_at_read,     \* history: _aliases_to_ip when get_all_aliases() ran
    keys_left,       \* the part of sorted_alias_keys its loop has not reached
    processed_text,  \* its processed_text
    flight_result,   \* what it returned
    held_copy,       \* a get_all_aliases() result some caller has changed
    registry_kept,   \* history: that change left _aliases_to_ip as it was
    exec_call,       \* the last execute_firewall_command call and its outcome
    nl_input,        \* ui.nl_input: the policy text in the input field
    selected_target_actual_ip,  \* app_state.selected_target_actual_ip
    previewed_commands,         \* app_state.previewed_commands
    send_btn,        \* ui.send_btn is enabled
    gui_pc,          \* where the GUI thread is
    preview_frame,   \* locals of preview_policy
    send_frame,      \* locals of send_policy
    send_log,        \* history: what the running or last send_policy did
    start_btn,       \* ui.start_btn is enabled
    stop_btn,        \* ui.stop_btn is enabled
    worker_thread,   \* BackendManager.worker_thread (0 is None)
    is_backend_running,         \* app_state.is_backend_running
    stop_event,      \* admin_connect.stop_event is set
    threads,         \* per backend instance: its main, UDP and TCP threads
    handlers,        \* per accepted connection: its handle_client thread
    connected_devices,          \* admin_connect.connected_devices
    clients,         \* admin_connect.clients (0: the key is absent)
    connected,       \* device_connect.connected
    tcp_sock,        \* device_connect.tcp_sock (0 is None)
    connect_threads, \* per connect_to_admin thread of the device: where it is
    wire,            \* bytes sent to the device and not yet received by it
    sent_commands,   \* history: the commands given to send_command
    executed_commands           \* history: what execute_firewall_command was given

registry_vars == <<aliases_to_ip, ip_to_aliases>>

pipeline_vars == <<stage, doc, nlp_rule, rule_origin, target_explicit,
                   preferred_target_ip, interpreted, generated>>

history_vars == <<start_reg, snapshot, snapshot_during>>

thread_vars == <<pc, call, loc, ret, history_vars>>

text_vars == <<resolve_stage, raw_text, resolved_text, resolved_again>>

cmds_vars == <<cmds_pc, sents, sent_i, parse_single_calls, parsed_rules>>

\* the variables of the sections that follow the alias text section
builder_vars == <<services_file, service_mappings, load_failed, mapper_call,
                  params_returned, interpreted_rule, commands_for_this_rule>>

\* what a caller of the registry observes of its last call besides last_call
call_vars == <<reg_before, log_records>>

flight_vars == <<flight_pc, flight_text, flight_aliases, reg_at_read, keys_left,
                 processed_text, flight_result, held_copy, registry_kept>>

\* the variables of the device and admin applications
exec_vars == <<exec_call>>

gui_vars == <<nl_input, selected_target_actual_ip, previewed_commands, send_btn,
              gui_pc, preview_frame, send_frame, send_log, start_btn, stop_btn,
              worker_thread, is_backend_running>>

admin_vars == <<stop_event, threads, handlers, connected_devices, clients>>

device_vars == <<connected, tcp_sock, connect_threads>>

stream_vars == <<wire, sent_commands, executed_commands>>

net_vars == <<exec_vars, gui_vars, admin_vars, device_vars, stream_vars>>

later_vars == <<cmds_vars, builder_vars, call_vars, flight_vars, net_vars>>

NoneT == <<"None">>

(***************************************************************************)
(* Characters and str.lower().                                             *)
(***************************************************************************)
UpperChars == {"G", "W", "D", "B", "S", "M"}

LowerChar(c) ==
    CASE c = "G" -> "g"
      [] c = "W" -> "w"
      [] c = "D" -> "d"
      [] c = "B" -> "b"
      [] c = "S" -> "s"
      [] c = "M" -> "m"
      [] OTHER -> c

Lower(s) == [i \in DOMAIN s |-> LowerChar(s[i])]

(***************************************************************************)
(* A Python dict: a sequence of <<key, value>> entries with distinct keys, *)
(* in insertion order (the order sorted() and iteration observe).          *)
(***************************************************************************)
EmptyDict == <<>>

DictKeys(d) == {d[i][1] : i \in DOMAIN d}

DictHas(d, k) == \E i \in DOMAIN d : d[i][1] = k

DictGet(d, k) ==
    IF DictHas(d, k)
    THEN d[CHOOSE i \in DOMAIN d : d[i][1] = k][2]
    ELSE NoneT

DictDel(d, k) == SelectSeq(d, LAMBDA e : e[1] # k)

DictSet(d, k, v) ==
    IF DictHas(d, k)
    THEN [i \in DOMAIN d |-> IF d[i][1] = k THEN <<k, v>> ELSE d[i]]
    ELSE Append(d, <<k, v>>)

\* dict equality in Python ignores insertion order
DictItems(d) == {d[i] : i \in DOMAIN d}

(***************************************************************************)
(* alias_manager.add_alias / remove_alias_for_ip as functions of the two   *)
(* dicts: the dicts after the call and the value returned.                 *)
(***************************************************************************)
\* a variant that forgets to drop the stale reverse entry of a reassigned name
AddAliasKeepsOldIp(a2i, i2a, alias_name_lower) == i2a

AddAliasDropsOldIp(a2i, i2a, alias_name_lower) ==
    IF DictHas(a2i, alias_name_lower)
    THEN LET old_ip == DictGet(a2i, alias_name_lower)
         IN  IF DictHas(i2a, old_ip) /\ DictGet(i2a, old_ip) = alias_name_lower
             THEN DictDel(i2a, old_ip)
             ELSE i2a
    ELSE i2a

\* a variant that leaves the old name of a renamed address in the forward map
AddAliasKeepsOldAlias(a2i, i2a, ip_address) == a2i

AddAliasDropsOldAlias(a2i, i2a, ip_address) ==
    IF DictHas(i2a, ip_address)
    THEN LET old_alias == DictGet(i2a, ip_address)
         IN  IF DictHas(a2i, old_alias) THEN DictDel(a2i, old_alias) ELSE a2i
    ELSE a2i

\* a variant that rejects an empty address only
AddAliasResultNameUnchecked(a2i, i2a, ip_address, alias_name) ==
    IF ip_address = <<>>
    THEN [a2i |-> a2i, i2a |-> i2a, ret |-> FALSE]
    ELSE [a2i |-> DictSet(AddAliasDropsOldAlias(a2i, i2a, ip_address),
                          Lower(alias_name), ip_address),
          i2a |-> DictSet(i2a, ip_address, Lower(alias_name)),
          ret |-> TRUE]

AddAliasResult(a2i, i2a, ip_address, alias_name) ==
    IF ip_address = <<>> \/ alias_name = <<>>
    THEN [a2i |-> a2i, i2a |-> i2a, ret |-> FALSE]
    ELSE LET alias_name_lower == Lower(alias_name)
             a2i_1 == AddAliasDropsOldAlias(a2i, i2a, ip_address)
             i2a_1 == AddAliasDropsOldIp(a2i_1, i2a, alias_name_lower)
         IN  [a2i |-> DictSet(a2i_1, alias_name_lower, ip_address),
              i2a |-> DictSet(i2a_1, ip_address, alias_name_lower),
              ret |-> TRUE]

\* a variant that pops the reverse entry only
RemoveAliasKeepsForward(a2i, i2a, ip_address) ==
    IF DictHas(i2a, ip_address)
    THEN [a2i |-> a2i, i2a |-> DictDel(i2a, ip_address), ret |-> TRUE]
    ELSE [a2i |-> a2i, i2a |-> i2a, ret |-> FALSE]

RemoveAliasResult(a2i, i2a, ip_address) ==
    IF DictHas(i2a, ip_address)
    THEN LET alias_name_lower == DictGet(i2a, ip_address)
             i2a_1 == DictDel(i2a, ip_address)
         IN  IF DictHas(a2i, alias_name_lower)
             THEN [a2i |-> DictDel(a2i, alias_name_lower), i2a |-> i2a_1, ret |-> TRUE]
             ELSE [a2i |-> a2i, i2a |-> i2a_1, ret |-> FALSE]
    ELSE [a2i |-> a2i, i2a |-> i2a, ret |-> FALSE]

\* the records add_alias gives to the logger, in the order it emits them
LogRecord(level, line, alias, ip) ==
    [level |-> level, line |-> line, alias |-> alias, ip |-> ip]

AddAliasLog(a2i, i2a, ip_address, alias_name) ==
    IF ip_address = <<>> \/ alias_name = <<>>
    THEN <<LogRecord("warning", 21, NoneT, NoneT)>>
    ELSE LET alias_name_lower == Lower(alias_name)
             a2i_1 == AddAliasDropsOldAlias(a2i, i2a, ip_address)
         IN  (IF DictHas(i2a, ip_address)
              THEN <<LogRecord("debug", 31, DictGet(i2a, ip_address), ip_address)>>
              ELSE <<>>)
             \o (IF DictHas(a2i_1, alias_name_lower)
                 THEN <<LogRecord("debug", 38, alias_name_lower,
                                  DictGet(a2i_1, alias_name_lower))>>
                 ELSE <<>>)
             \o <<LogRecord("info", 42, alias_name, ip_address)>>

RemoveAliasLog(a2i, i2a, ip_address) ==
    IF DictHas(i2a, ip_address) /\ DictHas(a2i, DictGet(i2a, ip_address))
    THEN <<LogRecord("info", 51, DictGet(i2a, ip_address), ip_address)>>
    ELSE <<LogRecord("warning", 53, NoneT, ip_address)>>

\* a variant that looks the name up as it was typed
get_ip_for_alias_exact(alias_name) == DictGet(aliases_to_ip, alias_name)

get_ip_for_alias(alias_name) == DictGet(aliases_to_ip, Lower(alias_name))

get_alias_for_ip(ip_address) == DictGet(ip_to_aliases, ip_address)

get_all_aliases == aliases_to_ip

\* A dict object a caller holds: either the registry's own _aliases_to_ip
\* or a dict of its own.
\* a variant of dict.copy() that hands out the dict itself
DictCopyShared(d) == [shares_registry |-> TRUE, dict |-> d]

\* dict.copy(): a new object with the items d has now
DictCopy(d) == [shares_registry |-> FALSE, dict |-> d]

NoObject == [shares_registry |-> FALSE, dict |-> NoneT]

\* the items a held object has at the moment it is read
ObjectItems(obj) == IF obj.shares_registry THEN aliases_to_ip ELSE obj.dict

(***************************************************************************)
(* Inputs of the registry calls.                                           *)
(***************************************************************************)
AddrInputs == {<<>>, <<"1", ".", "1">>, <<"1", ".", "2">>, <<"2", ".", "1">>}

NameInputs == {<<>>, <<"g", "w">>, <<"G", "w">>, <<"d", "b">>, <<"D", "B">>, <<"s">>}


(***************************************************************************)
(* Tokens of a clause.  A token is its lower-case text; spaCy's lemma of   *)
(* each word of this vocabulary is the word itself.  Python's None among   *)
(* tokens and addresses of a rule is NoneS.                                *)
(***************************************************************************)
NoneS == "None"

Ips == {"ip1", "ip2", "ip3"}

IsIp(tok) == tok \in Ips

ACTION_VERBS == {"block", "deny", "drop", "reject", "allow", "permit", "accept"}

TARGET_DEVICE_PREPS == {"on", "at"}

SOURCE_IP_PREPS == {"from"}

DESTINATION_IP_PREPS == {"to"}

BOUNDARY_PREPS == TARGET_DEVICE_PREPS \cup SOURCE_IP_PREPS \cup DESTINATION_IP_PREPS

StopWords == {"on", "at", "from", "to", "all", "any"}

\* tokens for which spaCy's is_alpha is false besides the addresses
NumberTokens == {"22"}

IsAlpha(tok) == ~IsIp(tok) /\ tok \notin NumberTokens

skippable_service_prefix_words ==
    {"all", "any", "incoming", "outgoing", "traffic", "access", "queries"}

skippable_service_general_words ==
    skippable_service_prefix_words \cup {"ensure", "please"}

\* a variant that chooses the first action verb
FindPrimaryActionIdxFirst(d) ==
    LET hits == {i \in DOMAIN d : d[i] \in ACTION_VERBS}
    IN  IF hits = {} THEN 0 ELSE CHOOSE i \in hits : \A j \in hits : i <= j

\* _find_primary_action: index (from 1) of the last action verb, 0 if none
FindPrimaryActionIdx(d) ==
    LET hits == {i \in DOMAIN d : d[i] \in ACTION_VERBS}
    IN  IF hits = {} THEN 0 ELSE CHOOSE i \in hits : \A j \in hits : j <= i

RECURSIVE ServiceAfter(_, _)
ServiceAfter(d, i) ==
    IF i > Len(d) THEN NoneS
    ELSE IF IsIp(d[i]) THEN NoneS
    ELSE IF d[i] \in BOUNDARY_PREPS THEN NoneS
    ELSE IF d[i] \in StopWords THEN ServiceAfter(d, i + 1)
    ELSE IF IsAlpha(d[i])
         THEN IF d[i] \in skippable_service_prefix_words
              THEN ServiceAfter(d, i + 1)
              ELSE d[i]
    ELSE NoneS

\* a variant of the backward search that never keeps a filler word
RECURSIVE ServiceBeforeStrongOnly(_, _, _)
ServiceBeforeStrongOnly(d, i, cand) ==
    IF i < 1 THEN cand
    ELSE IF IsAlpha(d[i]) /\ d[i] \notin BOUNDARY_PREPS /\ d[i] \notin StopWords
            /\ d[i] \notin skippable_service_general_words
         THEN d[i]
         ELSE ServiceBeforeStrongOnly(d, i - 1, cand)

RECURSIVE ServiceBefore(_, _, _)
ServiceBefore(d, i, cand) ==
    IF i < 1 THEN cand
    ELSE IF IsIp(d[i]) THEN ServiceBefore(d, i - 1, cand)
    ELSE IF d[i] \in BOUNDARY_PREPS THEN ServiceBefore(d, i - 1, cand)
    ELSE IF d[i] \in StopWords THEN ServiceBefore(d, i - 1, cand)
    ELSE IF IsAlpha(d[i])
         THEN IF d[i] \notin skippable_service_general_words
              THEN d[i]
              ELSE ServiceBefore(d, i - 1, IF cand = NoneS THEN d[i] ELSE cand)
    ELSE ServiceBefore(d, i - 1, cand)

\* _identify_service, action_idx counted from 1
IdentifyService(d, action_idx) ==
    LET after == IF action_idx + 1 <= Len(d)
                 THEN ServiceAfter(d, action_idx + 1) ELSE NoneS
    IN  IF after # NoneS THEN after
        ELSE IF action_idx > 1 THEN ServiceBefore(d, action_idx - 1, NoneS)
        ELSE NoneS

\* _extract_ip_entities: every address token with the lemma of the token
\* before it
ExtractIpEntities(d) ==
    LET all == [i \in DOMAIN d |->
                  [ip |-> d[i],
                   prep |-> IF i > 1 THEN d[i - 1] ELSE NoneS,
                   start_index |-> i - 1]]
    IN  SelectSeq(all, LAMBDA e : IsIp(e.ip))

FirstIndexWith(ents, preps) ==
    LET hits == {i \in DOMAIN ents : ents[i].prep \in preps}
    IN  IF hits = {} THEN 0 ELSE CHOOSE i \in hits : \A j \in hits : i <= j

RemoveAt(s, i) == [j \in 1 .. (Len(s) - 1) |-> IF j < i THEN s[j] ELSE s[j + 1]]

\* a variant that drops the later on/at entities as the from/to loops do
TakeTargetDropSurplus(ents) ==
    LET i == FirstIndexWith(ents, TARGET_DEVICE_PREPS)
    IN  [ip |-> IF i = 0 THEN NoneS ELSE ents[i].ip,
         rest |-> SelectSeq(ents, LAMBDA e : e.prep \notin TARGET_DEVICE_PREPS)]

\* the loop over on/at entities: the first is taken, later ones are kept
TakeTarget(ents) ==
    LET i == FirstIndexWith(ents, TARGET_DEVICE_PREPS)
    IN  IF i = 0 THEN [ip |-> NoneS, rest |-> ents]
        ELSE [ip |-> ents[i].ip, rest |-> RemoveAt(ents, i)]

\* the loops over from / to entities: the first is taken, later ones dropped
TakeFirstDropAll(ents, preps) ==
    LET i == FirstIndexWith(ents, preps)
    IN  [ip |-> IF i = 0 THEN NoneS ELSE ents[i].ip,
         rest |-> SelectSeq(ents, LAMBDA e : e.prep \notin preps)]

\* a variant that looks for the source among the to-governed addresses
TakeSourceFromTo(ents) == TakeFirstDropAll(ents, DESTINATION_IP_PREPS)

TakeSource(ents) == TakeFirstDropAll(ents, SOURCE_IP_PREPS)

TakeDestination(ents) == TakeFirstDropAll(ents, DESTINATION_IP_PREPS)

\* a variant whose default target prefers the source to the destination
AssignIpRolesSourceFirst(ip_entities) ==
    LET t == TakeTarget(ip_entities)
        s == TakeSource(t.rest)
        d == TakeDestination(s.rest)
        target_device_ip ==
            IF t.ip # NoneS THEN t.ip
            ELSE IF s.ip # NoneS THEN s.ip
            ELSE d.ip
    IN  [source_ip |-> s.ip, destination_ip |-> d.ip,
         target_device_ip |-> target_device_ip, remaining_ips |-> d.rest]

\* _assign_ip_roles
AssignIpRoles(ip_entities) ==
    LET t == TakeTarget(ip_entities)
        s == TakeSource(t.rest)
        d == TakeDestination(s.rest)
        defaulted == /\ Len(d.rest) = 1
                     /\ s.ip = NoneS
                     /\ d.ip = NoneS
                     /\ d.rest[1].ip # t.ip
        source_ip == IF defaulted THEN d.rest[1].ip ELSE s.ip
        remaining == IF defaulted THEN Tail(d.rest) ELSE d.rest
        target_device_ip ==
            IF t.ip # NoneS THEN t.ip
            ELSE IF d.ip # NoneS THEN d.ip
            ELSE source_ip
    IN  [source_ip |-> source_ip, destination_ip |-> d.ip,
         target_device_ip |-> target_device_ip, remaining_ips |-> remaining]

MakeRule(a, sv, s, d, t) ==
    [action |-> a, service |-> sv, source_ip |-> s, destination_ip |-> d,
     target_device_ip |-> t]

\* the empty dict {} parse_single returns for a clause without intent
EmptyRule == MakeRule(NoneS, NoneS, NoneS, NoneS, NoneS)

\* a variant of the final validation that also wants a source or destination
ParseSingleValidStrict(action, roles) ==
    /\ action # NoneS
    /\ roles.target_device_ip # NoneS
    /\ (roles.source_ip # NoneS \/ roles.destination_ip # NoneS)

\* parse_single, step 5: the two validation tests
ParseSingleValid(action, roles) ==
    /\ ~(action = NoneS \/ roles.target_device_ip = NoneS)
    /\ ~(roles.target_device_ip = NoneS
         /\ ~(roles.source_ip # NoneS \/ roles.destination_ip # NoneS))

ParseSingle(d) ==
    LET action_idx == FindPrimaryActionIdx(d)
        action == IF action_idx = 0 THEN NoneS ELSE d[action_idx]
        service == IdentifyService(d, action_idx)
        roles == AssignIpRoles(ExtractIpEntities(d))
    IN  IF action = NoneS THEN EmptyRule
        ELSE IF ~ParseSingleValid(action, roles) THEN EmptyRule
        ELSE MakeRule(action,
                      IF service = NoneS THEN "any" ELSE service,
                      roles.source_ip, roles.destination_ip,
                      roles.target_device_ip)

(***************************************************************************)
(* nlp.py (the module policy_engine.py imports): its parse_single tests    *)
(* stop words before addresses and prepositions in the service search,     *)
(* assigns roles by the same three loops and defaults as _assign_ip_roles, *)
(* and rejects a clause without source and destination.                    *)
(***************************************************************************)
RECURSIVE LegacyServiceAfter(_, _)
LegacyServiceAfter(d, i) ==
    IF i > Len(d) THEN NoneS
    ELSE IF d[i] \in StopWords THEN LegacyServiceAfter(d, i + 1)
    ELSE IF IsIp(d[i]) THEN NoneS
    ELSE IF d[i] \in BOUNDARY_PREPS THEN NoneS
    ELSE IF IsAlpha(d[i])
         THEN IF d[i] \in skippable_service_prefix_words
              THEN LegacyServiceAfter(d, i + 1)
              ELSE d[i]
    ELSE NoneS

RECURSIVE LegacyServiceBefore(_, _, _)
LegacyServiceBefore(d, i, cand) ==
    IF i < 1 THEN cand
    ELSE IF d[i] \in StopWords THEN LegacyServiceBefore(d, i - 1, cand)
    ELSE IF IsIp(d[i]) THEN LegacyServiceBefore(d, i - 1, cand)
    ELSE IF d[i] \in BOUNDARY_PREPS THEN LegacyServiceBefore(d, i - 1, cand)
    ELSE IF IsAlpha(d[i])
         THEN IF d[i] \notin skippable_service_general_words
              THEN d[i]
              ELSE LegacyServiceBefore(d, i - 1, IF cand = NoneS THEN d[i] ELSE cand)
    ELSE LegacyServiceBefore(d, i - 1, cand)

LegacyIdentifyService(d, action_idx) ==
    LET after == IF action_idx + 1 <= Len(d)
                 THEN LegacyServiceAfter(d, action_idx + 1) ELSE NoneS
    IN  IF after # NoneS THEN after
        ELSE IF action_idx > 1 THEN LegacyServiceBefore(d, action_idx - 1, NoneS)
        ELSE NoneS

LegacyParseSingle(d) ==
    LET action_idx == FindPrimaryActionIdx(d)
        action == IF action_idx = 0 THEN NoneS ELSE d[action_idx]
        service == LegacyIdentifyService(d, action_idx)
        roles == AssignIpRoles(ExtractIpEntities(d))
    IN  IF action = NoneS THEN EmptyRule
        ELSE IF \/ roles.target_device_ip = NoneS
                \/ ~(roles.source_ip # NoneS \/ roles.destination_ip # NoneS)
             THEN EmptyRule
        ELSE MakeRule(action,
                      IF service = NoneS THEN "any" ELSE service,
                      roles.source_ip, roles.destination_ip,
                      roles.target_device_ip)

(***************************************************************************)
(* RuleInterpreter.determine_final_target_and_chain                        *)
(***************************************************************************)
\* a variant that calls the target explicit when it differs from the source
\* or from the destination
NlpTargetWasExplicitEither(r) ==
    LET source_ip == r.source_ip
        destination_ip == r.destination_ip
        t == r.target_device_ip
    IN  /\ t # NoneS
        /\ \/ (source_ip # NoneS /\ t # source_ip)
           \/ (destination_ip # NoneS /\ t # destination_ip)
           \/ (source_ip = NoneS /\ destination_ip = NoneS)

NlpTargetWasExplicit(r) ==
    LET source_ip == r.source_ip
        destination_ip == r.destination_ip
        t == r.target_device_ip
        is_different_from_source == source_ip # NoneS /\ t # source_ip
        is_different_from_dest == destination_ip # NoneS /\ t # destination_ip
    IN  /\ t # NoneS
        /\ \/ (source_ip # NoneS /\ destination_ip # NoneS
               /\ is_different_from_source /\ is_different_from_dest)
           \/ (source_ip # NoneS /\ destination_ip = NoneS
               /\ is_different_from_source)
           \/ (destination_ip # NoneS /\ source_ip = NoneS
               /\ is_different_from_dest)
           \/ (source_ip = NoneS /\ destination_ip = NoneS)

\* a variant that never replaces a parsed target
FinalTargetKeepsParsed(r, preferred) ==
    IF r.target_device_ip = NoneS THEN preferred ELSE r.target_device_ip

FinalTarget(r, preferred) ==
    IF preferred # NoneS
    THEN IF r.target_device_ip = NoneS THEN preferred
         ELSE IF ~NlpTargetWasExplicit(r) THEN preferred
         ELSE r.target_device_ip
    ELSE r.target_device_ip

\* the chain table of policy_engine.py, which answers OUTPUT for a rule on
\* the destination itself when only a destination is given
EngineChain(final, source_ip, destination_ip) ==
    IF final = source_ip /\ destination_ip # NoneS THEN "OUTPUT"
    ELSE IF final = destination_ip /\ source_ip # NoneS THEN "INPUT"
    ELSE IF source_ip # NoneS /\ destination_ip # NoneS THEN "FORWARD"
    ELSE IF source_ip # NoneS
         THEN IF final = source_ip THEN "OUTPUT" ELSE "INPUT"
    ELSE IF destination_ip # NoneS
         THEN IF final = destination_ip THEN "OUTPUT" ELSE "INPUT"
    ELSE "INPUT"

DetermineChain(final, source_ip, destination_ip) ==
    IF final = source_ip /\ destination_ip # NoneS THEN "OUTPUT"
    ELSE IF final = destination_ip /\ source_ip # NoneS THEN "INPUT"
    ELSE IF source_ip # NoneS /\ destination_ip # NoneS
         THEN IF final # source_ip /\ final # destination_ip THEN "FORWARD"
              ELSE IF final = source_ip THEN "OUTPUT"
              ELSE "INPUT"
    ELSE IF source_ip # NoneS
         THEN IF final = source_ip THEN "OUTPUT" ELSE "INPUT"
    ELSE "INPUT"

MakeInterpreted(t, c, r) ==
    [final_target_ip |-> t, chain |-> c, action |-> r.action,
     service |-> r.service, source_ip |-> r.source_ip,
     destination_ip |-> r.destination_ip]

\* the None determine_final_target_and_chain returns without a target
NoInterpreted == MakeInterpreted(NoneS, NoneS, EmptyRule)

\* a variant that infers the chain from the parsed target, before the override
DetermineFinalTargetAndChainStale(r, preferred) ==
    LET final == FinalTarget(r, preferred)
    IN  IF final = NoneS THEN NoInterpreted
        ELSE MakeInterpreted(final,
                             DetermineChain(r.target_device_ip, r.source_ip,
                                            r.destination_ip),
                             r)

\* a variant without the check of lines 66-68
DetermineFinalTargetAndChainUnchecked(r, preferred) ==
    LET final == FinalTarget(r, preferred)
    IN  MakeInterpreted(final, DetermineChain(final, r.source_ip, r.destination_ip), r)

DetermineFinalTargetAndChain(r, preferred) ==
    LET final == FinalTarget(r, preferred)
    IN  IF final = NoneS THEN NoInterpreted
        ELSE MakeInterpreted(final,
                             DetermineChain(final, r.source_ip, r.destination_ip),
                             r)

(***************************************************************************)
(* service_mapper.get_service_params over the loaded services.json, and    *)
(* policy_engine.parse_and_generate_commands for one parsed rule.          *)
(***************************************************************************)
ServiceCatalog ==
    [ssh |-> <<[proto |-> "tcp", dport |-> "22"]>>,
     dns |-> <<[proto |-> "udp", dport |-> "53"], [proto |-> "tcp", dport |-> "53"]>>,
     icmp |-> <<[proto |-> "icmp", dport |-> NoneS]>>]

GetServiceParams(service_name) ==
    IF service_name = NoneS THEN <<>>
    ELSE IF service_name \in DOMAIN ServiceCatalog THEN ServiceCatalog[service_name]
    ELSE <<>>

SERVICES_TO_IGNORE == {"any", "all", "traffic", NoneS}

ActionToIptablesTarget(action_verb) ==
    IF action_verb \in {"block", "deny", "drop", "reject"} THEN "DROP"
    ELSE IF action_verb \in {"allow", "permit", "accept"} THEN "ACCEPT"
    ELSE NoneS

EngineTargetWasExplicit(r) ==
    LET source_ip == r.source_ip
        destination_ip == r.destination_ip
        t == r.target_device_ip
    IN  /\ t # NoneS
        /\ \/ (source_ip # NoneS /\ destination_ip # NoneS
               /\ t # source_ip /\ t # destination_ip)
           \/ (source_ip # NoneS /\ destination_ip = NoneS /\ t # source_ip)
           \/ (destination_ip # NoneS /\ source_ip = NoneS /\ t # destination_ip)

EngineFinalTarget(r, preferred) ==
    LET t == r.target_device_ip
        is_nlp_target_implicit_default ==
            \/ (t = r.source_ip
                /\ (r.destination_ip = NoneS \/ r.destination_ip = r.source_ip))
            \/ t = r.destination_ip
    IN  IF preferred # NoneS
        THEN IF t = NoneS THEN preferred
             ELSE IF ~EngineTargetWasExplicit(r)
                  THEN IF is_nlp_target_implicit_default THEN preferred ELSE t
             ELSE t
        ELSE t

BaseCmdParts(chain, source_ip, destination_ip) ==
    <<"iptables", "-A", chain>>
    \o (IF source_ip # NoneS THEN <<"-s", source_ip>> ELSE <<>>)
    \o (IF destination_ip # NoneS THEN <<"-d", destination_ip>> ELSE <<>>)

ServiceCmdParts(param_dict) ==
    IF param_dict.proto # NoneS
    THEN <<"-p", param_dict.proto>>
         \o (IF param_dict.proto \in {"tcp", "udp"} /\ param_dict.dport # NoneS
             THEN <<"--dport", param_dict.dport>> ELSE <<>>)
    ELSE <<>>

EngineCommands(chain, r, iptables_target) ==
    LET base == BaseCmdParts(chain, r.source_ip, r.destination_ip)
        param_list == GetServiceParams(r.service)
    IN  IF r.service \in SERVICES_TO_IGNORE THEN <<base \o <<"-j", iptables_target>>>>
        ELSE IF param_list # <<>>
             THEN [i \in DOMAIN param_list |->
                     base \o ServiceCmdParts(param_list[i]) \o <<"-j", iptables_target>>]
        ELSE <<base \o <<"-j", iptables_target>>>>

MakeTuple(t, s, d, cmds) ==
    [final_target_ip |-> t, source_ip |-> s, destination_ip |-> d, commands |-> cmds]

\* a rule the engine skips appends nothing
NoTuple == MakeTuple(NoneS, NoneS, NoneS, <<>>)

EngineGenerate(r, preferred) ==
    LET final == EngineFinalTarget(r, preferred)
        iptables_target == ActionToIptablesTarget(r.action)
    IN  IF final = NoneS THEN NoTuple
        ELSE IF r.action = NoneS \/ ~(r.source_ip # NoneS \/ r.destination_ip # NoneS)
             THEN NoTuple
        ELSE IF iptables_target = NoneS THEN NoTuple
        ELSE MakeTuple(final, r.source_ip, r.destination_ip,
                       EngineCommands(EngineChain(final, r.source_ip, r.destination_ip),
                                      r, iptables_target))

(***************************************************************************)
(* service_mapper with its module cache, and                               *)
(* IPTablesCommandBuilder.build_commands (backend/policy_components).      *)
(* A dict value of services.json is a list of {proto, dport} or, when the  *)
(* file is malformed, something that is not a list.                        *)
(***************************************************************************)
LowerWord(w) ==
    CASE w = "ANY" -> "any"
      [] w = "SSH" -> "ssh"
      [] w = "ALLOW" -> "allow"
      [] w = "TCP" -> "tcp"
      [] OTHER -> w

ParamList(items) == [is_list |-> TRUE, items |-> items]

NotAList == [is_list |-> FALSE, items |-> <<>>]

\* the contents of a loadable services.json: the entries the tests rely on
\* (ssh, dns, ping) and one entry for each branch of the builder's loop
ServicesFile ==
    [ssh |-> ParamList(<<[proto |-> "tcp", dport |-> "22"]>>),
     dns |-> ParamList(<<[proto |-> "udp", dport |-> "53"],
                         [proto |-> "tcp", dport |-> "53"]>>),
     ping |-> ParamList(<<[proto |-> "icmp", dport |-> NoneS]>>),
     gre |-> ParamList(<<[proto |-> "gre", dport |-> "47"]>>),
     rawtcp |-> ParamList(<<[proto |-> "TCP", dport |-> NoneS]>>),
     noproto |-> ParamList(<<[proto |-> NoneS, dport |-> "9"]>>),
     nothing |-> ParamList(<<>>),
     broken |-> NotAList]

\* _service_mappings = None
NoMappings == [is_none |-> TRUE, dict |-> <<>>]

\* _service_mappings = {}
EmptyMappings == [is_none |-> FALSE, dict |-> <<>>]

LoadedMappings == [is_none |-> FALSE, dict |-> ServicesFile]

\* a variant whose last handler leaves the cache unset
LoadMappingsLeavesNone(file) ==
    CASE file = "ok" -> [ok |-> TRUE, mappings |-> LoadedMappings]
      [] file = "missing" -> [ok |-> FALSE, mappings |-> EmptyMappings]
      [] file = "unparsable" -> [ok |-> FALSE, mappings |-> EmptyMappings]
      [] OTHER -> [ok |-> FALSE, mappings |-> NoMappings]

\* _load_mappings: json.load, or one of three handlers
LoadMappings(file) ==
    CASE file = "ok" -> [ok |-> TRUE, mappings |-> LoadedMappings]
      [] file = "missing" -> [ok |-> FALSE, mappings |-> EmptyMappings]
      [] file = "unparsable" -> [ok |-> FALSE, mappings |-> EmptyMappings]
      [] OTHER -> [ok |-> FALSE, mappings |-> EmptyMappings]

\* what get_service_params returns: None, or the list found
ParamsNone == [found |-> FALSE, items |-> <<>>]

LookupParams(dict, service_name) ==
    IF service_name \notin DOMAIN dict THEN ParamsNone
    ELSE IF ~dict[service_name].is_list THEN ParamsNone
    ELSE [found |-> TRUE, items |-> dict[service_name].items]

\* get_service_params: the value returned and the cache afterwards
GetServiceParamsCached(service_name, mappings, file) ==
    IF service_name = NoneS
    THEN [params |-> ParamsNone, mappings |-> mappings, load_failed |-> FALSE]
    ELSE IF mappings.is_none
         THEN LET loaded == LoadMappings(file)
              IN  IF ~loaded.ok
                  THEN [params |-> ParamsNone, mappings |-> loaded.mappings,
                        load_failed |-> TRUE]
                  ELSE [params |-> LookupParams(loaded.mappings.dict,
                                                LowerWord(service_name)),
                        mappings |-> loaded.mappings, load_failed |-> FALSE]
         ELSE [params |-> LookupParams(mappings.dict, LowerWord(service_name)),
               mappings |-> mappings, load_failed |-> FALSE]

\* a variant that attaches the port of any entry that defines one
BuilderServiceCmdPartsAnyProto(param_dict) ==
    IF param_dict.proto # NoneS
    THEN <<"-p", param_dict.proto>>
         \o (IF param_dict.dport # NoneS
             THEN <<"--dport", param_dict.dport>> ELSE <<>>)
    ELSE <<>>

\* lines 77-85: -p for an entry with a protocol, --dport for tcp and udp
BuilderServiceCmdParts(param_dict) ==
    IF param_dict.proto # NoneS
    THEN <<"-p", param_dict.proto>>
         \o (IF LowerWord(param_dict.proto) \in {"tcp", "udp"}
                /\ param_dict.dport # NoneS
             THEN <<"--dport", param_dict.dport>> ELSE <<>>)
    ELSE <<>>

Truthy(v) == v # NoneS /\ v # ""

\* line 65: service_name and service_name.lower() in SERVICES_TO_IGNORE
ServiceIsIgnored(service_name) ==
    Truthy(service_name) /\ LowerWord(service_name) \in SERVICES_TO_IGNORE

\* a variant that emits the rule of lines 93-95 without looking at the addresses
UnknownServiceCommandsAlways(base, has_ip, iptables_target_action) ==
    <<base \o <<"-j", iptables_target_action>>>>

\* lines 88-98: the service is not in the catalog
UnknownServiceCommands(base, has_ip, iptables_target_action) ==
    IF has_ip THEN <<base \o <<"-j", iptables_target_action>>>> ELSE <<>>

\* a variant that puts the service part before the addresses
ServiceCommandPartsFirst(base, parts, iptables_target_action) ==
    SubSeq(base, 1, 3) \o parts \o SubSeq(base, 4, Len(base))
    \o <<"-j", iptables_target_action>>

\* lines 73-87: one command of the loop
ServiceCommand(base, parts, iptables_target_action) ==
    base \o parts \o <<"-j", iptables_target_action>>

\* a variant that stops after the first entry
ServiceCommandsFirstOnly(base, items, iptables_target_action) ==
    <<ServiceCommand(base, BuilderServiceCmdParts(items[1]), iptables_target_action)>>

\* lines 72-87: the loop over param_list
ServiceCommands(base, items, iptables_target_action) ==
    [i \in DOMAIN items |->
        ServiceCommand(base, BuilderServiceCmdParts(items[i]), iptables_target_action)]

\* build_commands: the list returned and the cache afterwards
BuildCommands(rule, mappings, file) ==
    LET chain == rule.chain
        action_verb == rule.action
        service_name == rule.service
        source_ip == rule.source_ip
        destination_ip == rule.destination_ip
        has_ip == Truthy(source_ip) \/ Truthy(destination_ip)
        iptables_target_action ==
            IF Truthy(action_verb) THEN ActionToIptablesTarget(LowerWord(action_verb))
            ELSE NoneS
        base == BaseCmdParts(chain, source_ip, destination_ip)
        got == GetServiceParamsCached(service_name, mappings, file)
        untouched == [commands |-> <<>>, mappings |-> mappings, load_failed |-> FALSE]
    IN  IF ~Truthy(action_verb) \/ ~Truthy(chain) THEN untouched
        ELSE IF iptables_target_action = NoneS THEN untouched
        ELSE IF ServiceIsIgnored(service_name)
             THEN [untouched EXCEPT
                      !.commands = <<base \o <<"-j", iptables_target_action>>>>]
        ELSE LET commands ==
                     IF got.params.found /\ got.params.items # <<>>
                     THEN ServiceCommands(base, got.params.items, iptables_target_action)
                     ELSE UnknownServiceCommands(base, has_ip, iptables_target_action)
             IN  [commands |-> IF commands = <<>> /\ has_ip
                               THEN <<base \o <<"-j", iptables_target_action>>>>
                               ELSE commands,
                  mappings |-> got.mappings,
                  load_failed |-> got.load_failed]

BuilderChains == {"INPUT", "OUTPUT", "FORWARD", NoneS}

BuilderActions == {"deny", "allow", "ALLOW", "log", NoneS}

BuilderServices ==
    {"any", "all", "traffic", "ANY", NoneS, "", "ssh", "SSH", "dns", "ping",
     "gre", "rawtcp", "noproto", "nothing", "broken", "unknownservice"}

BuilderRules ==
    {[final_target_ip |-> "ip3", chain |-> c, action |-> a, service |-> sv,
      source_ip |-> s, destination_ip |-> d] :
        c \in BuilderChains, a \in BuilderActions, sv \in BuilderServices,
        s \in {NoneS, "ip1"}, d \in {NoneS, "ip2"}}

(***************************************************************************)
(* Clauses handed to parse_single: a verb phrase and up to MaxMentions     *)
(* address mentions, each with or without a governing preposition.         *)
(***************************************************************************)
MaxMentions == 3

VerbParts == {<<>>, <<"deny">>, <<"allow", "ssh">>}

MentionSegs ==
    {<<p, ip>> : p \in BOUNDARY_PREPS, ip \in Ips} \cup {<<ip>> : ip \in Ips}

RECURSIVE Flatten(_)
Flatten(segs) == IF segs = <<>> THEN <<>> ELSE Head(segs) \o Flatten(Tail(segs))

ClauseTokens(segs, verb, pos) ==
    Flatten(SubSeq(segs, 1, pos)) \o verb \o Flatten(SubSeq(segs, pos + 1, Len(segs)))

PreferredInputs == {NoneS, "ip1", "ip4"}

DirectRules ==
    {MakeRule("deny", "any", s, d, t) :
        s \in Ips \cup {NoneS}, d \in Ips \cup {NoneS}, t \in Ips \cup {NoneS}}

(***************************************************************************)
(* The registry used from one thread: each call is one step.               *)
(***************************************************************************)
NoCall == [op |-> "none", ip |-> NoneT, name |-> NoneT, ret |-> FALSE]

add_alias(ip_address, alias_name) ==
    LET r == AddAliasResult(aliases_to_ip, ip_to_aliases, ip_address, alias_name)
    IN  /\ aliases_to_ip' = r.a2i
        /\ ip_to_aliases' = r.i2a
        /\ last_call' = [op |-> "add_alias", ip |-> ip_address,
                         name |-> alias_name, ret |-> r.ret]
        /\ reg_before' = <<aliases_to_ip, ip_to_aliases>>
        /\ log_records' = AddAliasLog(aliases_to_ip, ip_to_aliases,
                                      ip_address, alias_name)
        /\ UNCHANGED <<pipeline_vars, thread_vars, text_vars, cmds_vars,
                       builder_vars, flight_vars, net_vars>>

remove_alias_for_ip(ip_address) ==
    LET r == RemoveAliasResult(aliases_to_ip, ip_to_aliases, ip_address)
    IN  /\ aliases_to_ip' = r.a2i
        /\ ip_to_aliases' = r.i2a
        /\ last_call' = [op |-> "remove_alias_for_ip", ip |-> ip_address,
                         name |-> NoneT, ret |-> r.ret]
        /\ reg_before' = <<aliases_to_ip, ip_to_aliases>>
        /\ log_records' = RemoveAliasLog(aliases_to_ip, ip_to_aliases, ip_address)
        /\ UNCHANGED <<pipeline_vars, thread_vars, text_vars, cmds_vars,
                       builder_vars, flight_vars, net_vars>>

vars == <<aliases_to_ip, ip_to_aliases, last_call, stage, doc, nlp_rule,
          rule_origin, target_explicit, preferred_target_ip, interpreted,
          generated, pc, call, loc, ret, start_reg, snapshot, snapshot_during,
          resolve_stage, raw_text, resolved_text, resolved_again,
          cmds_pc, sents, sent_i, parse_single_calls, parsed_rules,
          services_file, service_mappings, load_failed, mapper_call,
          params_returned, interpreted_rule, commands_for_this_rule,
          reg_before, log_records, flight_pc, flight_text, flight_aliases,
          reg_at_read, keys_left, processed_text, flight_result, held_copy,
          registry_kept, net_vars>>

Threads == {"w1", "w2"}

NoLoc == [alias_name_lower |-> NoneT, old_alias |-> NoneT, old_ip |-> NoneT]

\* the most backend instances started, connections accepted and connect
\* threads spawned in one behaviour
MaxInstances == 2

MaxConns == 2

MaxConnectThreads == 3

\* the most commands given to send_command in one behaviour
MaxSent == 2

\* the addresses devices connect from
AdminIps == {"ip1", "ip2"}

\* a backend instance that was never started
NoThreads == [main |-> "none", udp |-> "none", tcp |-> "none"]

\* a connection that was never accepted
NoHandler == [pc |-> "none", ip |-> "None", registered |-> FALSE]

NoPreviewFrame == [nl_command |-> <<>>, preferred |-> "None"]

NoSendFrame == [list |-> <<>>, rule |-> 0, cmd |-> 0, sent_count |-> 0,
                errors_occurred |-> FALSE]

\* no call of execute_firewall_command is in progress
NoExec ==
    [called |-> FALSE, command_string |-> <<>>, ran |-> FALSE,
     cmd_list |-> <<>>, returned |-> <<>>, escaped |-> "none"]

Init ==
    /\ aliases_to_ip = EmptyDict
    /\ ip_to_aliases = EmptyDict
    /\ last_call = NoCall
    /\ stage = "idle"
    /\ doc = <<>>
    /\ nlp_rule = EmptyRule
    /\ rule_origin = "none"
    /\ target_explicit = FALSE
    /\ preferred_target_ip = NoneS
    /\ interpreted = NoInterpreted
    /\ generated = NoTuple
    /\ pc = [t \in Threads |-> "idle"]
    /\ call = [t \in Threads |-> NoCall]
    /\ loc = [t \in Threads |-> NoLoc]
    /\ ret = [t \in Threads |-> "none"]
    /\ start_reg = <<EmptyDict, EmptyDict>>
    /\ snapshot = NoneT
    /\ snapshot_during = FALSE
    /\ resolve_stage = "none"
    /\ raw_text = <<>>
    /\ resolved_text = <<>>
    /\ resolved_again = <<>>
    /\ cmds_pc = "idle"
    /\ sents = <<>>
    /\ sent_i = 1
    /\ parse_single_calls = <<>>
    /\ parsed_rules = <<>>
    /\ services_file = "ok"
    /\ service_mappings = NoMappings
    /\ load_failed = FALSE
    /\ mapper_call = "none"
    /\ params_returned = ParamsNone
    /\ interpreted_rule = NoInterpreted
    /\ commands_for_this_rule = <<>>
    /\ reg_before = <<EmptyDict, EmptyDict>>
    /\ log_records = <<>>
    /\ flight_pc = "idle"
    /\ flight_text = <<>>
    /\ flight_aliases = NoObject
    /\ reg_at_read = EmptyDict
    /\ keys_left = <<>>
    /\ processed_text = <<>>
    /\ flight_result = <<>>
    /\ held_copy = NoObject
    /\ registry_kept = TRUE
    /\ exec_call = NoExec
    /\ nl_input = <<>>
    /\ selected_target_actual_ip = "None"
    /\ previewed_commands = <<>>
    /\ send_btn = FALSE
    /\ gui_pc = "idle"
    /\ preview_frame = NoPreviewFrame
    /\ send_frame = NoSendFrame
    /\ send_log = <<>>
    /\ start_btn = TRUE
    /\ stop_btn = FALSE
    /\ worker_thread = 0
    /\ is_backend_running = FALSE
    /\ stop_event = FALSE
    /\ threads = [i \in 1 .. MaxInstances |-> NoThreads]
    /\ handlers = [c \in 1 .. MaxConns |-> NoHandler]
    /\ connected_devices = {}
    /\ clients = [ip \in AdminIps |-> 0]
    /\ connected = FALSE
    /\ tcp_sock = 0
    /\ connect_threads = [t \in 1 .. MaxConnectThreads |-> "none"]
    /\ wire = <<>>
    /\ sent_commands = <<>>
    /\ executed_commands = <<>>

AddAliasStep == \E ip \in AddrInputs, n \in NameInputs : add_alias(ip, n)

RemoveAliasStep == \E ip \in AddrInputs : remove_alias_for_ip(ip)

Next == AddAliasStep \/ RemoveAliasStep

Spec == Init /\ [][Next]_vars

(***************************************************************************)
(* The compile pipeline for one clause: parse_single, then either          *)
(* determine_final_target_and_chain or the loop body of                    *)
(* parse_and_generate_commands, then the return to the caller.             *)
(***************************************************************************)
parse_single(cmd_doc) ==
    /\ stage = "idle"
    /\ stage' = "parsed"
    /\ doc' = cmd_doc
    /\ nlp_rule' = ParseSingle(cmd_doc)
    /\ rule_origin' = "parsed"
    /\ target_explicit' =
          (\E i \in DOMAIN cmd_doc :
               IsIp(cmd_doc[i]) /\ i > 1 /\ cmd_doc[i - 1] \in TARGET_DEVICE_PREPS)
    /\ UNCHANGED <<preferred_target_ip, interpreted, generated>>
    /\ UNCHANGED <<registry_vars, last_call, thread_vars, text_vars, later_vars>>

\* nlp.parse_single, the parser behind policy_engine.py
legacy_parse_single(cmd_doc) ==
    /\ stage = "idle"
    /\ stage' = "parsed"
    /\ doc' = cmd_doc
    /\ nlp_rule' = LegacyParseSingle(cmd_doc)
    /\ rule_origin' = "legacy"
    /\ target_explicit' =
          (\E i \in DOMAIN cmd_doc :
               IsIp(cmd_doc[i]) /\ i > 1 /\ cmd_doc[i - 1] \in TARGET_DEVICE_PREPS)
    /\ UNCHANGED <<preferred_target_ip, interpreted, generated>>
    /\ UNCHANGED <<registry_vars, last_call, thread_vars, text_vars, later_vars>>

\* a caller (the unit tests) builds the dict itself
create_nlp_rule(r) ==
    /\ stage = "idle"
    /\ stage' = "parsed"
    /\ nlp_rule' = r
    /\ rule_origin' = "direct"
    /\ UNCHANGED <<doc, target_explicit, preferred_target_ip, interpreted, generated>>
    /\ UNCHANGED <<registry_vars, last_call, thread_vars, text_vars, later_vars>>

determine_final_target_and_chain(preferred) ==
    /\ stage = "parsed"
    /\ rule_origin \in {"parsed", "direct"}
    /\ nlp_rule # EmptyRule
    /\ stage' = "interpreted"
    /\ preferred_target_ip' = preferred
    /\ interpreted' = DetermineFinalTargetAndChain(nlp_rule, preferred)
    /\ doc' = <<>>
    /\ UNCHANGED <<nlp_rule, rule_origin, target_explicit, generated>>
    /\ UNCHANGED <<registry_vars, last_call, thread_vars, text_vars, later_vars>>

parse_and_generate_commands(preferred) ==
    /\ stage = "parsed"
    /\ rule_origin = "legacy"
    /\ nlp_rule # EmptyRule
    /\ stage' = "generated"
    /\ preferred_target_ip' = preferred
    /\ generated' = EngineGenerate(nlp_rule, preferred)
    /\ doc' = <<>>
    /\ UNCHANGED <<nlp_rule, rule_origin, target_explicit, interpreted>>
    /\ UNCHANGED <<registry_vars, last_call, thread_vars, text_vars, later_vars>>

ClauseDone ==
    /\ \/ stage \in {"interpreted", "generated"}
       \/ stage = "parsed" /\ nlp_rule = EmptyRule
    /\ stage' = "idle"
    /\ doc' = <<>>
    /\ nlp_rule' = EmptyRule
    /\ rule_origin' = "none"
    /\ target_explicit' = FALSE
    /\ preferred_target_ip' = NoneS
    /\ interpreted' = NoInterpreted
    /\ generated' = NoTuple
    /\ UNCHANGED <<registry_vars, last_call, thread_vars, text_vars, later_vars>>

ParseSingleStep ==
    /\ stage = "idle"
    /\ \E k \in 0 .. MaxMentions :
          \E segs \in [1 .. k -> MentionSegs], verb \in VerbParts :
            \E pos \in {0, IF k > 0 THEN 1 ELSE 0} :
              parse_single(ClauseTokens(segs, verb, pos))

LegacyParseSingleStep ==
    /\ stage = "idle"
    /\ \E k \in 0 .. MaxMentions :
          \E segs \in [1 .. k -> MentionSegs], verb \in VerbParts :
            \E pos \in {0, IF k > 0 THEN 1 ELSE 0} :
              legacy_parse_single(ClauseTokens(segs, verb, pos))

CreateNlpRuleStep ==
    /\ stage = "idle"
    /\ \E r \in DirectRules : create_nlp_rule(r)

InterpretStep ==
    /\ stage = "parsed"
    /\ \E p \in PreferredInputs : determine_final_target_and_chain(p)

GenerateStep ==
    /\ stage = "parsed"
    /\ \E p \in PreferredInputs : parse_and_generate_commands(p)

NextRules ==
    \/ ParseSingleStep
    \/ LegacyParseSingleStep
    \/ CreateNlpRuleStep
    \/ InterpretStep
    \/ GenerateStep
    \/ ClauseDone

SpecRules == Init /\ [][NextRules]_vars

(***************************************************************************)
(* The registry used from several threads.  alias_manager takes no lock,   *)
(* so a call is a sequence of steps, one per dictionary read, deletion or  *)
(* write (each atomic under the interpreter lock), and the steps of two    *)
(* calls interleave.  Labels are the line numbers of alias_manager.py.     *)
(***************************************************************************)
ThreadAddrs == {<<"1", ".", "1">>, <<"1", ".", "2">>}

ThreadNames == {<<"g", "w">>, <<"D", "b">>}

NoCallRunning == \A t \in Threads : pc[t] = "idle"

Goto(t, label) == pc' = [pc EXCEPT ![t] = label]

\* a dictionary access on a missing key raises KeyError and ends the call
Raise(t) ==
    /\ pc' = [pc EXCEPT ![t] = "done"]
    /\ ret' = [ret EXCEPT ![t] = "KeyError"]

Return(t, value) ==
    /\ pc' = [pc EXCEPT ![t] = "done"]
    /\ ret' = [ret EXCEPT ![t] = value]

BeginCall(t, c) ==
    /\ pc[t] = "idle"
    /\ call' = [call EXCEPT ![t] = c]
    /\ pc' = [pc EXCEPT ![t] = IF c.op = "add_alias" THEN "a20" ELSE "r47"]
    /\ start_reg' = IF NoCallRunning /\ \A u \in Threads : ret[u] = "none"
                    THEN <<aliases_to_ip, ip_to_aliases>> ELSE start_reg
    /\ UNCHANGED <<last_call, pipeline_vars, text_vars, later_vars, registry_vars, loc, ret,
                   snapshot, snapshot_during>>

A20(t) ==
    /\ pc[t] = "a20"
    /\ IF call[t].ip = <<>> \/ call[t].name = <<>>
       THEN Return(t, "False") /\ UNCHANGED loc
       ELSE /\ loc' = [loc EXCEPT ![t].alias_name_lower = Lower(call[t].name)]
            /\ Goto(t, "a27") /\ UNCHANGED ret
    /\ UNCHANGED <<last_call, pipeline_vars, text_vars, later_vars, registry_vars, call, history_vars>>

A27(t) ==
    /\ pc[t] = "a27"
    /\ Goto(t, IF DictHas(ip_to_aliases, call[t].ip) THEN "a28" ELSE "a34")
    /\ UNCHANGED <<last_call, pipeline_vars, text_vars, later_vars, registry_vars, call, loc, ret, history_vars>>

A28(t) ==
    /\ pc[t] = "a28"
    /\ IF DictHas(ip_to_aliases, call[t].ip)
       THEN /\ loc' = [loc EXCEPT ![t].old_alias = DictGet(ip_to_aliases, call[t].ip)]
            /\ Goto(t, "a29") /\ UNCHANGED ret
       ELSE Raise(t) /\ UNCHANGED loc
    /\ UNCHANGED <<last_call, pipeline_vars, text_vars, later_vars, registry_vars, call, history_vars>>

A29(t) ==
    /\ pc[t] = "a29"
    /\ Goto(t, IF DictHas(aliases_to_ip, loc[t].old_alias) THEN "a30" ELSE "a34")
    /\ UNCHANGED <<last_call, pipeline_vars, text_vars, later_vars, registry_vars, call, loc, ret, history_vars>>

A30(t) ==
    /\ pc[t] = "a30"
    /\ IF DictHas(aliases_to_ip, loc[t].old_alias)
       THEN /\ aliases_to_ip' = DictDel(aliases_to_ip, loc[t].old_alias)
            /\ Goto(t, "a34") /\ UNCHANGED ret
       ELSE Raise(t) /\ UNCHANGED aliases_to_ip
    /\ UNCHANGED <<last_call, pipeline_vars, text_vars, later_vars, ip_to_aliases, call, loc, history_vars>>

A34(t) ==
    /\ pc[t] = "a34"
    /\ Goto(t, IF DictHas(aliases_to_ip, loc[t].alias_name_lower) THEN "a35" ELSE "a40")
    /\ UNCHANGED <<last_call, pipeline_vars, text_vars, later_vars, registry_vars, call, loc, ret, history_vars>>

A35(t) ==
    /\ pc[t] = "a35"
    /\ IF DictHas(aliases_to_ip, loc[t].alias_name_lower)
       THEN /\ loc' = [loc EXCEPT ![t].old_ip =
                          DictGet(aliases_to_ip, loc[t].alias_name_lower)]
            /\ Goto(t, "a36") /\ UNCHANGED ret
       ELSE Raise(t) /\ UNCHANGED loc
    /\ UNCHANGED <<last_call, pipeline_vars, text_vars, later_vars, registry_vars, call, history_vars>>

\* line 36, left operand: old_ip in _ip_to_aliases
A36(t) ==
    /\ pc[t] = "a36"
    /\ Goto(t, IF DictHas(ip_to_aliases, loc[t].old_ip) THEN "a36b" ELSE "a40")
    /\ UNCHANGED <<last_call, pipeline_vars, text_vars, later_vars, registry_vars, call, loc, ret, history_vars>>

\* line 36, right operand: _ip_to_aliases[old_ip] == alias_name_lower
A36b(t) ==
    /\ pc[t] = "a36b"
    /\ IF DictHas(ip_to_aliases, loc[t].old_ip)
       THEN /\ Goto(t, IF DictGet(ip_to_aliases, loc[t].old_ip) = loc[t].alias_name_lower
                       THEN "a37" ELSE "a40")
            /\ UNCHANGED ret
       ELSE Raise(t)
    /\ UNCHANGED <<last_call, pipeline_vars, text_vars, later_vars, registry_vars, call, loc, history_vars>>

A37(t) ==
    /\ pc[t] = "a37"
    /\ IF DictHas(ip_to_aliases, loc[t].old_ip)
       THEN /\ ip_to_aliases' = DictDel(ip_to_aliases, loc[t].old_ip)
            /\ Goto(t, "a40") /\ UNCHANGED ret
       ELSE Raise(t) /\ UNCHANGED ip_to_aliases
    /\ UNCHANGED <<last_call, pipeline_vars, text_vars, later_vars, aliases_to_ip, call, loc, history_vars>>

A40(t) ==
    /\ pc[t] = "a40"
    /\ aliases_to_ip' = DictSet(aliases_to_ip, loc[t].alias_name_lower, call[t].ip)
    /\ Goto(t, "a41")
    /\ UNCHANGED <<last_call, pipeline_vars, text_vars, later_vars, ip_to_aliases, call, loc, ret, history_vars>>

A41(t) ==
    /\ pc[t] = "a41"
    /\ ip_to_aliases' = DictSet(ip_to_aliases, call[t].ip, loc[t].alias_name_lower)
    /\ Return(t, "True")
    /\ UNCHANGED <<last_call, pipeline_vars, text_vars, later_vars, aliases_to_ip, call, loc, history_vars>>

R47(t) ==
    /\ pc[t] = "r47"
    /\ IF DictHas(ip_to_aliases, call[t].ip)
       THEN Goto(t, "r48") /\ UNCHANGED ret
       ELSE Return(t, "False")
    /\ UNCHANGED <<last_call, pipeline_vars, text_vars, later_vars, registry_vars, call, loc, history_vars>>

R48(t) ==
    /\ pc[t] = "r48"
    /\ IF DictHas(ip_to_aliases, call[t].ip)
       THEN /\ loc' = [loc EXCEPT ![t].alias_name_lower =
                          DictGet(ip_to_aliases, call[t].ip)]
            /\ ip_to_aliases' = DictDel(ip_to_aliases, call[t].ip)
            /\ Goto(t, "r49") /\ UNCHANGED ret
       ELSE Raise(t) /\ UNCHANGED <<loc, ip_to_aliases>>
    /\ UNCHANGED <<last_call, pipeline_vars, text_vars, later_vars, aliases_to_ip, call, history_vars>>

R49(t) ==
    /\ pc[t] = "r49"
    /\ IF DictHas(aliases_to_ip, loc[t].alias_name_lower)
       THEN Goto(t, "r50") /\ UNCHANGED ret
       ELSE Return(t, "False")
    /\ UNCHANGED <<last_call, pipeline_vars, text_vars, later_vars, registry_vars, call, loc, history_vars>>

R50(t) ==
    /\ pc[t] = "r50"
    /\ IF DictHas(aliases_to_ip, loc[t].alias_name_lower)
       THEN /\ aliases_to_ip' = DictDel(aliases_to_ip, loc[t].alias_name_lower)
            /\ Return(t, "True")
       ELSE Raise(t) /\ UNCHANGED aliases_to_ip
    /\ UNCHANGED <<last_call, pipeline_vars, text_vars, later_vars, ip_to_aliases, call, loc, history_vars>>

AddAliasLine(t) ==
    \/ A20(t) \/ A27(t) \/ A28(t) \/ A29(t) \/ A30(t) \/ A34(t) \/ A35(t)
    \/ A36(t) \/ A36b(t) \/ A37(t) \/ A40(t) \/ A41(t)

RemoveAliasLine(t) == R47(t) \/ R48(t) \/ R49(t) \/ R50(t)

ThreadCalls ==
    {[op |-> "add_alias", ip |-> ip, name |-> n, ret |-> FALSE] :
        ip \in ThreadAddrs, n \in ThreadNames}
    \cup {[op |-> "remove_alias_for_ip", ip |-> ip, name |-> NoneT, ret |-> FALSE] :
            ip \in ThreadAddrs}

\* the registry is filled by calls from one thread before any thread starts
SetupStep ==
    /\ NoCallRunning
    /\ \A t \in Threads : ret[t] = "none"
    /\ snapshot = NoneT
    /\ \/ \E ip \in ThreadAddrs, n \in ThreadNames : add_alias(ip, n)
       \/ \E ip \in ThreadAddrs : remove_alias_for_ip(ip)

WriterStep(t) ==
    \/ \E c \in ThreadCalls : BeginCall(t, c)
    \/ AddAliasLine(t)
    \/ RemoveAliasLine(t)

\* get_all_aliases() on a reader thread: dict.copy() is one atomic step
SnapshotStep ==
    /\ snapshot = NoneT
    /\ snapshot' = get_all_aliases
    /\ snapshot_during' = (pc["w1"] \notin {"idle", "done"})
    /\ UNCHANGED <<registry_vars, last_call, pipeline_vars, text_vars, later_vars,
                   pc, call, loc, ret, start_reg>>

\* two writer threads
NextWriters == SetupStep \/ WriterStep("w1") \/ WriterStep("w2")

SpecWriters == Init /\ [][NextWriters]_vars

\* one writer thread and one reader thread
NextSnapshot == SetupStep \/ WriterStep("w1") \/ SnapshotStep

SpecSnapshot == Init /\ [][NextSnapshot]_vars

(***************************************************************************)
(* Alias resolution in command text (backend/nlp.py).  A text is a         *)
(* sequence of characters; the registry snapshot is the ordered dict that  *)
(* get_all_aliases() copies.                                               *)
(***************************************************************************)
\* \w of the regular expressions: letters and digits (and "_", not used)
WordChars == {"g", "w", "d", "b", "s", "m", "0", "1", "2"} \cup UpperChars

IsWordAt(text, i) == i \in DOMAIN text /\ text[i] \in WordChars

\* \b between the characters i-1 and i of text
WordBoundary(text, i) == IsWordAt(text, i - 1) # IsWordAt(text, i)

\* str.strip(): leading and trailing blanks removed
RECURSIVE StripLeft(_)
StripLeft(s) ==
    IF s # <<>> /\ Head(s) = " " THEN StripLeft(Tail(s)) ELSE s

RECURSIVE StripRight(_)
StripRight(s) ==
    IF s # <<>> /\ s[Len(s)] = " " THEN StripRight(SubSeq(s, 1, Len(s) - 1)) ELSE s

Strip(s) == StripRight(StripLeft(s))

\* str.replace(',', ' ')
ReplaceCommas(s) == [i \in DOMAIN s |-> IF s[i] = "," THEN " " ELSE s[i]]

\* " ".join(s.split()): runs of blanks become one blank, none at the ends
NormalizeSpaces(s) ==
    LET joined[i \in 0..Len(s)] ==
            IF i = 0 THEN <<>>
            ELSE IF s[i] = " " /\ (i = 1 \/ s[i - 1] = " ")
                 THEN joined[i - 1]
                 ELSE Append(joined[i - 1], s[i])
    IN  StripRight(joined[Len(s)])

CleanRawText(text) == NormalizeSpaces(ReplaceCommas(Lower(Strip(text))))

\* the pattern \b + re.escape(alias_key) + \b matches text at position i
AliasMatchesAt(alias_key, text, i) ==
    /\ i + Len(alias_key) - 1 <= Len(text)
    /\ SubSeq(text, i, i + Len(alias_key) - 1) = alias_key
    /\ WordBoundary(text, i)
    /\ WordBoundary(text, i + Len(alias_key))

\* re.sub(pattern, ip_address, text): one left-to-right pass over text,
\* every non-overlapping match replaced
RECURSIVE ReSub(_, _, _, _)
ReSub(alias_key, ip_address, text, i) ==
    IF i > Len(text) THEN <<>>
    ELSE IF AliasMatchesAt(alias_key, text, i)
         THEN ip_address \o ReSub(alias_key, ip_address, text, i + Len(alias_key))
         ELSE <<text[i]>> \o ReSub(alias_key, ip_address, text, i + 1)

RECURSIVE KeysOfLenDown(_, _)
KeysOfLenDown(keys, n) ==
    IF n = 0 THEN <<>>
    ELSE SelectSeq(keys, LAMBDA k : Len(k) = n) \o KeysOfLenDown(keys, n - 1)

\* sorted(keys, key=len, reverse=True): stable, equal lengths stay in
\* insertion order
SortedAliasKeys(all_aliases_map) ==
    LET keys == [i \in DOMAIN all_aliases_map |-> all_aliases_map[i][1]]
        longest == IF keys = <<>> THEN 0
                   ELSE CHOOSE n \in {Len(keys[i]) : i \in DOMAIN keys} :
                            \A i \in DOMAIN keys : Len(keys[i]) <= n
    IN  KeysOfLenDown(keys, longest)

\* the aliases are substituted one after the other, each in the text the
\* previous substitutions produced
RECURSIVE SubstituteKeys(_, _, _)
SubstituteKeys(text, keys, all_aliases_map) ==
    IF keys = <<>> THEN text
    ELSE SubstituteKeys(ReSub(Head(keys), DictGet(all_aliases_map, Head(keys)), text, 1),
                        Tail(keys), all_aliases_map)

SubstituteAliasesInText(text, all_aliases_map) ==
    SubstituteKeys(text, SortedAliasKeys(all_aliases_map), all_aliases_map)

PreprocessAndResolveAliases(text, all_aliases) ==
    LET cleaned_text == CleanRawText(text)
    IN  IF all_aliases = EmptyDict THEN cleaned_text
        ELSE NormalizeSpaces(SubstituteAliasesInText(cleaned_text, all_aliases))

MaxTextLen == 4

TextChars == {"m", "S", "1", " ", ","}

RECURSIVE TextsOfLen(_)
TextsOfLen(n) ==
    IF n = 0 THEN {<<>>}
    ELSE {Append(t, c) : t \in TextsOfLen(n - 1), c \in TextChars}

TextInputs == UNION {TextsOfLen(n) : n \in 0..MaxTextLen}

AliasAddrs == {<<"1", ".", "1">>, <<"1", ".", "2">>}

AliasNames == {<<"s">>, <<"M", " ", "s">>, <<"1">>, <<"m", " ", "1">>}

\* the registry is filled before the text is entered
AssignAliasStep ==
    /\ resolve_stage = "none"
    /\ \E ip \in AliasAddrs, n \in AliasNames : add_alias(ip, n)

preprocess_and_resolve_aliases(text) ==
    /\ raw_text' = text
    /\ resolved_text' = PreprocessAndResolveAliases(text, get_all_aliases)
    /\ resolve_stage' = "once"
    /\ UNCHANGED <<registry_vars, last_call, pipeline_vars, thread_vars, later_vars, resolved_again>>

PreprocessStep ==
    /\ resolve_stage = "none"
    /\ \E text \in TextInputs : preprocess_and_resolve_aliases(text)

\* the output is given to the preprocessor again, the registry unchanged
PreprocessAgainStep ==
    /\ resolve_stage = "once"
    /\ resolved_again' = PreprocessAndResolveAliases(resolved_text, get_all_aliases)
    /\ resolve_stage' = "twice"
    /\ UNCHANGED <<registry_vars, last_call, pipeline_vars, thread_vars, later_vars,
                   raw_text, resolved_text>>

NextAliases == AssignAliasStep \/ PreprocessStep \/ PreprocessAgainStep

SpecAliases == Init /\ [][NextAliases]_vars

(***************************************************************************)
(* parse_commands (backend/nlp.py): the resolved text is split into        *)
(* sentences and parse_single is called on each.  The sentences spaCy      *)
(* detects are the input here; each is a token sequence as in parse_single.*)
(***************************************************************************)
earlier_vars == <<registry_vars, last_call, pipeline_vars, thread_vars, text_vars>>

MaxSents == 3

SentenceInputs ==
    {<<"deny", "from", "ip1">>,
     <<"allow", "ssh", "to", "ip2", "on", "ip3">>,
     <<"deny", "on", "ip1">>,
     <<"from", "ip1">>,
     <<"deny", "ssh">>}

\* if cmd_dict: parsed_rules.append(cmd_dict)
AppendAlways(rules, cmd_dict) == Append(rules, cmd_dict)

AppendAtFront(rules, cmd_dict) ==
    IF cmd_dict # EmptyRule THEN <<cmd_dict>> \o rules ELSE rules

AppendIfValid(rules, cmd_dict) ==
    IF cmd_dict # EmptyRule THEN Append(rules, cmd_dict) ELSE rules

\* lines 314-317: the text is resolved and split, the list starts empty
parse_commands(doc_sents) ==
    /\ cmds_pc \in {"idle", "returned"}
    /\ cmds_pc' = "loop"
    /\ sents' = doc_sents
    /\ sent_i' = 1
    /\ parse_single_calls' = <<>>
    /\ parsed_rules' = <<>>
    /\ UNCHANGED <<earlier_vars, builder_vars, call_vars, flight_vars, net_vars>>

ParseCommandsStep ==
    /\ cmds_pc \in {"idle", "returned"}
    /\ \E n \in 0 .. MaxSents : \E doc_sents \in [1 .. n -> SentenceInputs] :
          parse_commands(doc_sents)

\* lines 319-330: one iteration of the loop over doc.sents
ParseCommandsSentStep ==
    /\ cmds_pc = "loop"
    /\ sent_i <= Len(sents)
    /\ LET cmd_dict == ParseSingle(sents[sent_i])
       IN  /\ parse_single_calls' = Append(parse_single_calls, sents[sent_i])
           /\ parsed_rules' = AppendIfValid(parsed_rules, cmd_dict)
    /\ sent_i' = sent_i + 1
    /\ UNCHANGED <<cmds_pc, sents>>
    /\ UNCHANGED <<earlier_vars, builder_vars, call_vars, flight_vars, net_vars>>

\* lines 332-333: return parsed_rules
ParseCommandsReturn ==
    /\ cmds_pc = "loop"
    /\ sent_i > Len(sents)
    /\ cmds_pc' = "returned"
    /\ UNCHANGED <<sents, sent_i, parse_single_calls, parsed_rules>>
    /\ UNCHANGED <<earlier_vars, builder_vars, call_vars, flight_vars, net_vars>>

NextCommands == ParseCommandsStep \/ ParseCommandsSentStep \/ ParseCommandsReturn

SpecCommands == Init /\ [][NextCommands]_vars

(***************************************************************************)
(* Calls of the service mapper and of the command builder.  The state of   *)
(* services.json on disk belongs to the environment and may change at any  *)
(* time; the cache is filled by the first lookup of a name.                *)
(***************************************************************************)
ServicesFileStates == {"ok", "missing", "unparsable", "unreadable"}

ServicesFileStep ==
    /\ mapper_call = "none"
    /\ \E f \in ServicesFileStates \ {services_file} : services_file' = f
    /\ UNCHANGED <<service_mappings, load_failed, mapper_call, params_returned,
                   interpreted_rule, commands_for_this_rule>>
    /\ UNCHANGED <<earlier_vars, cmds_vars, call_vars, flight_vars, net_vars>>

get_service_params(service_name) ==
    LET got == GetServiceParamsCached(service_name, service_mappings, services_file)
    IN  /\ params_returned' = got.params
        /\ service_mappings' = got.mappings
        /\ load_failed' = (load_failed \/ got.load_failed)
        /\ mapper_call' = "get_service_params"
        /\ interpreted_rule' = [NoInterpreted EXCEPT !.service = service_name]
        /\ UNCHANGED <<services_file, commands_for_this_rule>>
        /\ UNCHANGED <<earlier_vars, cmds_vars, call_vars, flight_vars, net_vars>>

GetServiceParamsStep ==
    /\ mapper_call = "none"
    /\ \E sv \in BuilderServices : get_service_params(sv)

build_commands(rule) ==
    LET built == BuildCommands(rule, service_mappings, services_file)
    IN  /\ interpreted_rule' = rule
        /\ commands_for_this_rule' = built.commands
        /\ service_mappings' = built.mappings
        /\ load_failed' = (load_failed \/ built.load_failed)
        /\ mapper_call' = "build_commands"
        /\ UNCHANGED <<services_file, params_returned>>
        /\ UNCHANGED <<earlier_vars, cmds_vars, call_vars, flight_vars, net_vars>>

BuildCommandsStep ==
    /\ mapper_call = "none"
    /\ \E rule \in BuilderRules : build_commands(rule)

\* the caller has taken the result; the cache stays
BuilderCallDone ==
    /\ mapper_call # "none"
    /\ mapper_call' = "none"
    /\ params_returned' = ParamsNone
    /\ interpreted_rule' = NoInterpreted
    /\ commands_for_this_rule' = <<>>
    /\ UNCHANGED <<services_file, service_mappings, load_failed>>
    /\ UNCHANGED <<earlier_vars, cmds_vars, call_vars, flight_vars, net_vars>>

NextBuilder ==
    \/ ServicesFileStep
    \/ GetServiceParamsStep
    \/ BuildCommandsStep
    \/ BuilderCallDone

SpecBuilder == Init /\ [][NextBuilder]_vars

(***************************************************************************)
(* One preprocess_and_resolve_aliases call followed statement by           *)
(* statement while the registry is being changed: the read of the          *)
(* registry, each turn of the substitution loop, the return.               *)
(***************************************************************************)
FlightTexts ==
    {<<"s">>, <<"m", " ", "s">>, <<"S", ",", "m", " ", "s">>, <<"1", " ", "s">>}

FlightNames == {<<"s">>, <<"M", " ", "s">>}

FlightRegistryStep ==
    \/ \E ip \in AliasAddrs, n \in FlightNames : add_alias(ip, n)
    \/ \E ip \in AliasAddrs : remove_alias_for_ip(ip)

\* lines 64-75: the text is cleaned, the registry is read once, and the
\* call returns at once when no alias is defined
PreprocessBegin ==
    /\ flight_pc = "idle"
    /\ \E text \in FlightTexts :
        LET cleaned_text == CleanRawText(text)
            obj == DictCopy(aliases_to_ip)
        IN  /\ flight_text' = text
            /\ flight_aliases' = obj
            /\ reg_at_read' = aliases_to_ip
            /\ IF aliases_to_ip = EmptyDict
               THEN /\ flight_pc' = "returned"
                    /\ flight_result' = cleaned_text
                    /\ UNCHANGED <<keys_left, processed_text>>
               ELSE /\ flight_pc' = "substituting"
                    /\ keys_left' = SortedAliasKeys(aliases_to_ip)
                    /\ processed_text' = cleaned_text
                    /\ UNCHANGED flight_result
    /\ UNCHANGED <<earlier_vars, cmds_vars, builder_vars, call_vars, net_vars, held_copy,
                   registry_kept>>

\* lines 53-56: one turn of the loop of _substitute_aliases_in_text
SubstituteKeyStep ==
    /\ flight_pc = "substituting"
    /\ keys_left # <<>>
    /\ processed_text' = ReSub(Head(keys_left),
                               DictGet(ObjectItems(flight_aliases), Head(keys_left)),
                               processed_text, 1)
    /\ keys_left' = Tail(keys_left)
    /\ UNCHANGED <<earlier_vars, cmds_vars, builder_vars, call_vars, net_vars, flight_pc,
                   flight_text, flight_aliases, reg_at_read, flight_result,
                   held_copy, registry_kept>>

\* line 83
PreprocessReturn ==
    /\ flight_pc = "substituting"
    /\ keys_left = <<>>
    /\ flight_result' = NormalizeSpaces(processed_text)
    /\ flight_pc' = "returned"
    /\ UNCHANGED <<earlier_vars, cmds_vars, builder_vars, call_vars, net_vars, flight_text,
                   flight_aliases, reg_at_read, keys_left, processed_text,
                   held_copy, registry_kept>>

\* the caller has the text; the next call may begin
PreprocessDone ==
    /\ flight_pc = "returned"
    /\ flight_pc' = "idle"
    /\ flight_text' = <<>>
    /\ flight_aliases' = NoObject
    /\ reg_at_read' = EmptyDict
    /\ keys_left' = <<>>
    /\ processed_text' = <<>>
    /\ flight_result' = <<>>
    /\ UNCHANGED <<earlier_vars, cmds_vars, builder_vars, call_vars, net_vars, held_copy,
                   registry_kept>>

\* a caller takes get_all_aliases() and stores into, or deletes from, what
\* it was given
CallerChangesCopy ==
    /\ flight_pc = "idle"
    /\ \E n \in FlightNames, ip \in AliasAddrs, delete \in BOOLEAN :
        LET obj == DictCopy(aliases_to_ip)
            changed == IF delete THEN DictDel(obj.dict, Lower(n))
                       ELSE DictSet(obj.dict, Lower(n), ip)
        IN  /\ aliases_to_ip' = IF obj.shares_registry THEN changed ELSE aliases_to_ip
            /\ held_copy' = [obj EXCEPT !.dict = changed]
            /\ registry_kept' = (aliases_to_ip' = aliases_to_ip)
    /\ UNCHANGED <<ip_to_aliases, last_call, pipeline_vars, thread_vars, text_vars,
                   cmds_vars, builder_vars, call_vars, net_vars, flight_pc, flight_text,
                   flight_aliases, reg_at_read, keys_left, processed_text,
                   flight_result>>

NextFlight ==
    \/ FlightRegistryStep
    \/ PreprocessBegin
    \/ SubstituteKeyStep
    \/ PreprocessReturn
    \/ PreprocessDone
    \/ CallerChangesCopy

SpecFlight == Init /\ [][NextFlight]_vars

(***************************************************************************)
(* parse_single on clauses of free word order: verbs, a service name,      *)
(* filler words, a numeral, a preposition and an address in every order.   *)
(***************************************************************************)
MaxWords == 4

Words == {"deny", "allow", "ssh", "traffic", "ensure", "all", "from", "ip1", "22"}

ParseWordsStep ==
    /\ stage = "idle"
    /\ \E n \in 0 .. MaxWords : \E d \in [1 .. n -> Words] : parse_single(d)

NextWords == ParseWordsStep \/ ClauseDone

SpecWords == Init /\ [][NextWords]_vars

\* the variables of the policy compiler
compiler_vars == <<earlier_vars, cmds_vars, builder_vars, call_vars, flight_vars>>

(***************************************************************************)
(* The device's command executor (device_app/command_executor.py).         *)
(* Command strings are sequences of one-character strings.                 *)
(***************************************************************************)
AsciiLetters ==
    {"a", "b", "c", "d", "e", "f", "g", "h", "i", "j", "k", "l", "m",
     "n", "o", "p", "q", "r", "s", "t", "u", "v", "w", "x", "y", "z",
     "A", "B", "C", "D", "E", "F", "G", "H", "I", "J", "K", "L", "M",
     "N", "O", "P", "Q", "R", "S", "T", "U", "V", "W", "X", "Y", "Z"}

AsciiDigits == {"0", "1", "2", "3", "4", "5", "6", "7", "8", "9"}

\* the characters \s matches and str.split() splits on
WhitespaceChars == {" ", "\t", "\n", "\r", "\f"}

\* the character class of ALLOWED_IPTABLES_CHARS_PATTERN
AllowedIptablesChars ==
    AsciiLetters \cup AsciiDigits \cup WhitespaceChars
        \cup {".", "-", "/", "=", ":", "*"}

\* a pattern ^[class]+ with no $: some non-empty prefix is in the class
MatchAllowedPrefixOnly(s) ==
    \E n \in 1..Len(s) : \A i \in 1..n : s[i] \in AllowedIptablesChars

\* ALLOWED_IPTABLES_CHARS_PATTERN.match(s): ^[class]+$ , where $ matches at
\* the end of the string and before a newline that ends the string
MatchAllowed(s) ==
    \E n \in 1..Len(s) :
        /\ \A i \in 1..n : s[i] \in AllowedIptablesChars
        /\ \/ n = Len(s)
           \/ n = Len(s) - 1 /\ s[Len(s)] = "\n"

IptablesPrefix == <<"i", "p", "t", "a", "b", "l", "e", "s", " ">>

IPTABLES_PATH ==
    <<"/", "u", "s", "r", "/", "s", "b", "i", "n", "/",
      "i", "p", "t", "a", "b", "l", "e", "s">>

Sudo == <<"s", "u", "d", "o">>

\* str.startswith(prefix)
StartsWith(s, prefix) ==
    Len(s) >= Len(prefix) /\ SubSeq(s, 1, Len(prefix)) = prefix

\* str.split(): the maximal runs of non-whitespace characters, in order
SplitWhitespace(s) ==
    LET words[i \in 0..Len(s)] ==
            IF i = 0 THEN <<>>
            ELSE IF s[i] \in WhitespaceChars THEN words[i - 1]
            ELSE IF i > 1 /\ s[i - 1] \notin WhitespaceChars
                 THEN [words[i - 1] EXCEPT ![Len(words[i - 1])] = @ \o <<s[i]>>]
                 ELSE Append(words[i - 1], <<s[i]>>)
    IN  words[Len(s)]

\* what subprocess.run can do: return with a return code, or raise
SubprocessOutcomes ==
    {"rc_zero", "rc_nonzero", "FileNotFoundError", "TimeoutExpired", "OSError"}

\* the exception classes the except clauses of step 4 catch; the last
\* clause, except Exception, catches every exception subprocess.run raises
CaughtInStep4 == {"FileNotFoundError", "TimeoutExpired", "OSError"}

\* execute_firewall_command(command_string), where subprocess.run, if it
\* is reached, behaves as outcome says
execute_firewall_command(command_string, outcome) ==
    LET actual_command_args ==
            SubSeq(command_string, Len(IptablesPrefix) + 1, Len(command_string))
        cmd_list == <<Sudo, IPTABLES_PATH>> \o SplitWhitespace(actual_command_args)
        rejected(msg) ==
            [called |-> TRUE, command_string |-> command_string, ran |-> FALSE,
             cmd_list |-> <<>>, returned |-> <<FALSE, msg>>, escaped |-> "none"]
        executed(result, exc) ==
            [called |-> TRUE, command_string |-> command_string, ran |-> TRUE,
             cmd_list |-> cmd_list, returned |-> result, escaped |-> exc]
    IN  IF ~StartsWith(command_string, IptablesPrefix)
        THEN rejected("Command does not start with 'iptables '.")
        ELSE IF ~MatchAllowed(actual_command_args)
        THEN rejected("Command arguments contain disallowed characters")
        ELSE IF outcome = "rc_zero"
        THEN executed(<<TRUE, "stdout or executed successfully">>, "none")
        ELSE IF outcome = "rc_nonzero"
        THEN executed(<<FALSE, "Return code, stdout, stderr">>, "none")
        ELSE IF outcome \notin CaughtInStep4
        THEN executed(<<>>, outcome)
        ELSE IF outcome = "FileNotFoundError"
        THEN executed(<<FALSE, "Error: iptables or sudo not found">>, "none")
        ELSE IF outcome = "TimeoutExpired"
        THEN executed(<<FALSE, "Error: Command execution timed out.">>, "none")
        ELSE executed(<<FALSE, "An unexpected error occurred">>, "none")

\* the longest argument text tried after the first word
MaxArgLen == 3

ExecChars == {"A", "z", "0", " ", "\n", "-", ";", "$"}

RECURSIVE ArgTexts(_)
ArgTexts(n) ==
    IF n = 0 THEN {<<>>}
    ELSE ArgTexts(n - 1)
            \cup {Append(t, c) : t \in {u \in ArgTexts(n - 1) : Len(u) = n - 1},
                                 c \in ExecChars}

ExecFirstWords ==
    {IptablesPrefix,
     <<"i", "p", "t", "a", "b", "l", "e", "s">>,
     <<"I", "p", "t", "a", "b", "l", "e", "s", " ">>,
     <<" ">> \o IptablesPrefix,
     <<"r", "m", " ">>,
     <<>>}

\* one call of execute_firewall_command
ExecuteFirewallCommandStep ==
    /\ ~exec_call.called
    /\ \E first \in ExecFirstWords, rest \in ArgTexts(MaxArgLen),
          outcome \in SubprocessOutcomes :
            exec_call' = execute_firewall_command(first \o rest, outcome)
    /\ UNCHANGED <<compiler_vars, gui_vars, admin_vars, device_vars, stream_vars>>

\* the caller has taken the returned pair and is ready for the next command
ExecResultTaken ==
    /\ exec_call.called
    /\ exec_call' = NoExec
    /\ UNCHANGED <<compiler_vars, gui_vars, admin_vars, device_vars, stream_vars>>

NextExec == ExecuteFirewallCommandStep \/ ExecResultTaken

SpecExec == Init /\ [][NextExec]_vars

(***************************************************************************)
(* The admin GUI's policy panel (admin_app/gui_managers/policy_manager.py, *)
(* device_table_manager.py, app_logic/app_state.py) and send_command of    *)
(* backend/admin_connect.py.  A policy text is the list of its clauses;    *)
(* the GUI thread runs one handler at a time and, inside a handler, lets   *)
(* pending text and selection events run at each processEvents call.       *)
(***************************************************************************)
PolicyTexts ==
    {<<>>,
     <<<<"deny">>>>,
     <<<<"deny", "dns", "from", "ip2">>>>,
     <<<<"deny", "dns", "from", "ip3", "on", "ip2">>,
       <<"allow", "ssh", "from", "ip2", "on", "ip1">>>>}

\* the addresses of the rows of the device table, and no selected row
GuiTargets == {NoneS, "ip1", "ip2"}

\* the generator behind the Preview button: the tuples of the clauses that
\* yield commands, in clause order
GuiGenerate(text, preferred) ==
    LET tuples == [i \in DOMAIN text |->
                      EngineGenerate(LegacyParseSingle(text[i]), preferred)]
    IN  SelectSeq(tuples, LAMBDA t : t # NoTuple)

\* the points where the GUI thread takes the next event
EventPoints == {"idle", "preview_51", "send_106", "send_134"}

policy_vars == <<nl_input, selected_target_actual_ip, previewed_commands,
                 send_btn, gui_pc, preview_frame, send_frame, send_log>>

backend_btn_vars == <<start_btn, stop_btn, worker_thread, is_backend_running>>

not_gui == <<compiler_vars, exec_vars, device_vars, stream_vars>>

\* nl_input.textChanged -> clear_preview_on_input_change -> clear_preview
TextChanged(text) ==
    /\ gui_pc \in EventPoints
    /\ text # nl_input
    /\ nl_input' = text
    /\ previewed_commands' = <<>>
    /\ send_btn' = FALSE
    /\ UNCHANGED <<selected_target_actual_ip, gui_pc, preview_frame, send_frame,
                   send_log, backend_btn_vars, admin_vars, not_gui>>

\* update_selected_target_from_table: a row, or no row, becomes the selection
update_selected_target_from_table(row_ip) ==
    /\ gui_pc \in EventPoints
    /\ selected_target_actual_ip' = row_ip
    /\ UNCHANGED <<nl_input, previewed_commands, send_btn, gui_pc, preview_frame,
                   send_frame, send_log, backend_btn_vars, admin_vars, not_gui>>

\* preview_policy up to its processEvents call
PreviewPolicyBegin ==
    /\ gui_pc = "idle"
    /\ IF nl_input = <<>>
       THEN UNCHANGED <<previewed_commands, send_btn, gui_pc, preview_frame>>
       ELSE /\ preview_frame' = [nl_command |-> nl_input,
                                 preferred |-> selected_target_actual_ip]
            /\ previewed_commands' = <<>>
            /\ send_btn' = FALSE
            /\ gui_pc' = "preview_51"
    /\ UNCHANGED <<nl_input, selected_target_actual_ip, send_frame, send_log,
                   backend_btn_vars, admin_vars, not_gui>>

\* preview_policy from the generator call to its return; the generator
\* returns its tuples or raises
PreviewPolicyFinish ==
    /\ gui_pc = "preview_51"
    /\ \E raised \in BOOLEAN :
          LET generated_tuples ==
                  GuiGenerate(preview_frame.nl_command, preview_frame.preferred)
          IN  IF raised \/ generated_tuples = <<>>
              THEN /\ previewed_commands' = <<>>
                   /\ send_btn' = FALSE
              ELSE /\ previewed_commands' = generated_tuples
                   /\ send_btn' = TRUE
    /\ gui_pc' = "idle"
    /\ preview_frame' = NoPreviewFrame
    /\ UNCHANGED <<nl_input, selected_target_actual_ip, send_frame, send_log,
                   backend_btn_vars, admin_vars, not_gui>>

\* send_policy up to its first processEvents call (a click reaches the
\* handler only while the button is enabled)
SendPolicyBegin ==
    /\ gui_pc = "idle"
    /\ send_btn
    /\ IF previewed_commands = <<>>
       THEN UNCHANGED <<previewed_commands, send_btn, gui_pc, send_frame, send_log>>
       ELSE IF ~is_backend_running
       THEN /\ gui_pc' = "send_100"
            /\ send_log' = <<>>
            /\ UNCHANGED <<previewed_commands, send_btn, send_frame>>
       ELSE /\ send_btn' = FALSE
            /\ send_frame' = [list |-> previewed_commands, rule |-> 1, cmd |-> 0,
                              sent_count |-> 0, errors_occurred |-> FALSE]
            /\ send_log' = <<>>
            /\ gui_pc' = "send_106"
            /\ UNCHANGED previewed_commands
    /\ UNCHANGED <<nl_input, selected_target_actual_ip, preview_frame,
                   backend_btn_vars, admin_vars, not_gui>>

\* send_policy with the backend not running, after the message box of line
\* 100: clear_preview, and the handler returns
SendPolicyRefused ==
    /\ gui_pc = "send_100"
    /\ previewed_commands' = <<>>
    /\ send_btn' = FALSE
    /\ gui_pc' = "idle"
    /\ UNCHANGED <<nl_input, selected_target_actual_ip, preview_frame, send_frame,
                   send_log, backend_btn_vars, admin_vars, not_gui>>

\* the head of the loop over the rules: the connection check of lines
\* 113-130, where the lock is acquired in time or not
SendPolicyRule ==
    /\ gui_pc \in {"send_106", "send_rule"}
    /\ IF send_frame.rule > Len(send_frame.list)
       THEN /\ gui_pc' = "send_154"
            /\ UNCHANGED <<send_frame, send_log>>
       ELSE \E acquired \in BOOLEAN :
              LET target_ip == send_frame.list[send_frame.rule].final_target_ip
                  cmd_list == send_frame.list[send_frame.rule].commands
                  in_clients == target_ip \in AdminIps /\ clients[target_ip] # 0
                  is_connected == acquired /\ in_clients
              IN  /\ send_log' = Append(send_log,
                                        [kind |-> "rule", rule |-> send_frame.rule,
                                         cmd |-> 0, in_clients |-> in_clients,
                                         is_connected |-> is_connected,
                                         outcome |-> "checked"])
                  /\ IF ~is_connected
                     THEN /\ send_frame' = [send_frame EXCEPT
                                               !.rule = @ + 1,
                                               !.errors_occurred = TRUE]
                          /\ gui_pc' = "send_rule"
                     ELSE IF cmd_list = <<>>
                     THEN /\ send_frame' = [send_frame EXCEPT !.rule = @ + 1]
                          /\ gui_pc' = "send_rule"
                     ELSE /\ send_frame' = [send_frame EXCEPT !.cmd = 1]
                          /\ gui_pc' = "send_134"
    /\ UNCHANGED <<nl_input, selected_target_actual_ip, previewed_commands, send_btn,
                   preview_frame, backend_btn_vars, admin_vars, not_gui>>

\* the frame after the command in hand was sent
AfterSent(f) ==
    IF f.cmd < Len(f.list[f.rule].commands)
    THEN [f EXCEPT !.cmd = @ + 1, !.sent_count = @ + 1]
    ELSE [f EXCEPT !.rule = @ + 1, !.cmd = 0, !.sent_count = @ + 1]

\* a send loop that goes on with the rule's next command after an error
AfterConnectionErrorGoOn(f) ==
    IF f.cmd < Len(f.list[f.rule].commands)
    THEN [f EXCEPT !.cmd = @ + 1, !.errors_occurred = TRUE]
    ELSE [f EXCEPT !.rule = @ + 1, !.cmd = 0, !.errors_occurred = TRUE]

\* the frame after send_command raised ConnectionError: break (line 142)
AfterConnectionError(f) ==
    [f EXCEPT !.rule = @ + 1, !.cmd = 0, !.errors_occurred = TRUE]

\* send_command(ip, cmd_str): ConnectionError when clients has no socket
\* for ip or when sendall fails, else the payload is on its way
SendCommandOutcomes(ip) ==
    IF ip \notin AdminIps \/ clients[ip] = 0
    THEN {"ConnectionError"}
    ELSE {"sent", "ConnectionError"}

\* one pass of the loop over the commands of a rule (lines 132-147)
SendPolicyCommand ==
    /\ gui_pc = "send_134"
    /\ \E outcome \in SendCommandOutcomes(send_frame.list[send_frame.rule].final_target_ip) :
          /\ send_log' = Append(send_log,
                                [kind |-> "cmd", rule |-> send_frame.rule,
                                 cmd |-> send_frame.cmd, in_clients |-> TRUE,
                                 is_connected |-> TRUE, outcome |-> outcome])
          /\ send_frame' = IF outcome = "sent" THEN AfterSent(send_frame)
                           ELSE AfterConnectionError(send_frame)
    /\ gui_pc' = IF send_frame'.cmd = 0 THEN "send_rule" ELSE "send_134"
    /\ UNCHANGED <<nl_input, selected_target_actual_ip, previewed_commands, send_btn,
                   preview_frame, backend_btn_vars, admin_vars, not_gui>>

\* line 154 and the message box that follows it
SendPolicyReenable ==
    /\ gui_pc = "send_154"
    /\ send_btn' = (previewed_commands # <<>>)
    /\ gui_pc' = "send_163"
    /\ UNCHANGED <<nl_input, selected_target_actual_ip, previewed_commands,
                   preview_frame, send_frame, send_log, backend_btn_vars,
                   admin_vars, not_gui>>

\* line 163: clear_preview, and the handler returns
SendPolicyClear ==
    /\ gui_pc = "send_163"
    /\ previewed_commands' = <<>>
    /\ send_btn' = FALSE
    /\ send_frame' = NoSendFrame
    /\ gui_pc' = "idle"
    /\ UNCHANGED <<nl_input, selected_target_actual_ip, preview_frame, send_log,
                   backend_btn_vars, admin_vars, not_gui>>

(***************************************************************************)
(* The backend (backend/admin_connect.py) and the GUI's Start and Stop     *)
(* buttons (admin_app/gui_managers/backend_manager.py).  Each start makes  *)
(* a backend instance: the thread running main and the UDP sender and TCP  *)
(* server threads it starts; every accepted connection gets a handler      *)
(* thread.  All of them share stop_event, connected_devices and clients.   *)
(***************************************************************************)
Instances == 1 .. MaxInstances

Conns == 1 .. MaxConns

\* threading.Thread.is_alive() of the thread running main of instance i
MainIsAlive(i) == threads[i].main \notin {"none", "stopped"}

\* some thread of instance i has been started and has not ended
InstanceRuns(i) ==
    \E part \in {"main", "udp", "tcp"} : threads[i][part] \notin {"none", "stopped"}

\* start_backend up to time.sleep(0.2) (lines 23-37)
start_backend ==
    /\ gui_pc = "idle"
    /\ start_btn
    /\ IF worker_thread # 0 /\ MainIsAlive(worker_thread)
       THEN UNCHANGED <<gui_pc, start_btn, worker_thread, stop_event, threads>>
       ELSE \E i \in Instances :
              /\ threads[i].main = "none"
              /\ \A j \in Instances : j < i => threads[j].main # "none"
              /\ start_btn' = FALSE
              /\ stop_event' = FALSE
              /\ worker_thread' = i
              /\ threads' = [threads EXCEPT ![i].main = "started"]
              /\ gui_pc' = "start_37"
    /\ UNCHANGED <<nl_input, selected_target_actual_ip, previewed_commands, send_btn,
                   preview_frame, send_frame, send_log, stop_btn, is_backend_running,
                   handlers, connected_devices, clients, not_gui>>

\* start_backend after the sleep (lines 39-48)
StartBackendCheck ==
    /\ gui_pc = "start_37"
    /\ IF MainIsAlive(worker_thread)
       THEN /\ stop_btn' = TRUE
            /\ is_backend_running' = TRUE
            /\ UNCHANGED start_btn
       ELSE /\ start_btn' = TRUE
            /\ stop_btn' = FALSE
            /\ is_backend_running' = FALSE
    /\ gui_pc' = "idle"
    /\ UNCHANGED <<nl_input, selected_target_actual_ip, previewed_commands, send_btn,
                   preview_frame, send_frame, send_log, worker_thread, admin_vars,
                   not_gui>>

\* stop_backend (lines 56-83)
stop_backend ==
    /\ gui_pc = "idle"
    /\ stop_btn
    /\ IF worker_thread = 0 \/ ~MainIsAlive(worker_thread)
       THEN /\ start_btn' = TRUE
            /\ stop_btn' = FALSE
            /\ is_backend_running' = FALSE
            /\ UNCHANGED <<worker_thread, stop_event>>
       ELSE /\ stop_btn' = FALSE
            /\ stop_event' = TRUE
            /\ worker_thread' = 0
            /\ start_btn' = TRUE
            /\ is_backend_running' = FALSE
    /\ UNCHANGED <<policy_vars, threads, handlers, connected_devices, clients,
                   not_gui>>

\* main, line 230
MainClearsStopEvent(i) ==
    /\ threads[i].main = "started"
    /\ stop_event' = FALSE
    /\ threads' = [threads EXCEPT ![i].main = "starting"]
    /\ UNCHANGED <<gui_vars, handlers, connected_devices, clients, not_gui>>

\* main, lines 232-238: both threads are started
MainStartsThreads(i) ==
    /\ threads[i].main = "starting"
    /\ threads' = [threads EXCEPT ![i] = [main |-> "waiting", udp |-> "started",
                                          tcp |-> "started"]]
    /\ UNCHANGED <<gui_vars, stop_event, handlers, connected_devices, clients, not_gui>>

\* main, lines 244-253: the loop ends once stop_event is seen set
MainSeesStop(i) ==
    /\ threads[i].main = "waiting"
    /\ stop_event
    /\ threads' = [threads EXCEPT ![i].main = "joining"]
    /\ UNCHANGED <<gui_vars, stop_event, handlers, connected_devices, clients, not_gui>>

\* main, lines 258-265: each join gives up after two seconds
MainReturns(i) ==
    /\ threads[i].main = "joining"
    /\ threads' = [threads EXCEPT ![i].main = "stopped"]
    /\ UNCHANGED <<gui_vars, stop_event, handlers, connected_devices, clients, not_gui>>

\* udp_discovery_sender, lines 48-57: the socket is made, or making it fails
UdpSetup(i) ==
    /\ threads[i].udp = "started"
    /\ \E ok \in BOOLEAN :
          threads' = [threads EXCEPT ![i].udp = IF ok THEN "running" ELSE "stopped"]
    /\ UNCHANGED <<gui_vars, stop_event, handlers, connected_devices, clients, not_gui>>

\* a sender whose loop does not look at stop_event
UdpIgnoresStop(i) ==
    /\ threads[i].udp = "running"
    /\ UNCHANGED vars

\* udp_discovery_sender, line 59 with stop_event set: the loop and the
\* thread end (a pass with stop_event clear changes nothing)
UdpSeesStop(i) ==
    /\ threads[i].udp = "running"
    /\ stop_event
    /\ threads' = [threads EXCEPT ![i].udp = "stopped"]
    /\ UNCHANGED <<gui_vars, stop_event, handlers, connected_devices, clients, not_gui>>

\* tcp_server, lines 151-164: bind fails while another server listens
TcpSetup(i) ==
    /\ threads[i].tcp = "started"
    /\ threads' = [threads EXCEPT ![i].tcp =
                      IF \E j \in Instances :
                            j # i /\ threads[j].tcp \in {"listening", "accepting"}
                      THEN "stopped" ELSE "listening"]
    /\ UNCHANGED <<gui_vars, stop_event, handlers, connected_devices, clients, not_gui>>

\* tcp_server, line 166: the loop condition
TcpChecksStop(i) ==
    /\ threads[i].tcp = "listening"
    /\ threads' = [threads EXCEPT ![i].tcp =
                      IF stop_event THEN "stopped" ELSE "accepting"]
    /\ UNCHANGED <<gui_vars, stop_event, handlers, connected_devices, clients, not_gui>>

\* tcp_server, lines 169-178: accept times out
TcpAcceptTimesOut(i) ==
    /\ threads[i].tcp = "accepting"
    /\ threads' = [threads EXCEPT ![i].tcp = "listening"]
    /\ UNCHANGED <<gui_vars, stop_event, handlers, connected_devices, clients, not_gui>>

\* tcp_server, lines 169-175: a device at ip connects and a handler thread
\* is started for the connection
TcpAccepts(i, c, ip) ==
    /\ threads[i].tcp = "accepting"
    /\ handlers[c].pc = "none"
    /\ \A b \in Conns : b < c => handlers[b].pc # "none"
    /\ handlers' = [handlers EXCEPT ![c] = [pc |-> "started", ip |-> ip,
                                            registered |-> FALSE]]
    /\ threads' = [threads EXCEPT ![i].tcp = "listening"]
    /\ UNCHANGED <<gui_vars, stop_event, connected_devices, clients, not_gui>>

\* handle_client, lines 101-102
HandlerAddsDevice(c) ==
    /\ handlers[c].pc = "started"
    /\ connected_devices' = connected_devices \cup {handlers[c].ip}
    /\ handlers' = [handlers EXCEPT ![c].pc = "adding_client"]
    /\ UNCHANGED <<gui_vars, stop_event, threads, clients, not_gui>>

\* handle_client, lines 103-105
HandlerAddsClient(c) ==
    /\ handlers[c].pc = "adding_client"
    /\ clients' = [clients EXCEPT ![handlers[c].ip] = c]
    /\ handlers' = [handlers EXCEPT ![c].pc = "monitoring", ![c].registered = TRUE]
    /\ UNCHANGED <<gui_vars, stop_event, threads, connected_devices, not_gui>>

\* handle_client, line 110 with stop_event set: the loop ends
HandlerSeesStop(c) ==
    /\ handlers[c].pc = "monitoring"
    /\ stop_event
    /\ handlers' = [handlers EXCEPT ![c].pc = "cleanup"]
    /\ UNCHANGED <<gui_vars, stop_event, threads, connected_devices, clients, not_gui>>

\* handle_client, lines 117-131: the device closed or lost the connection
HandlerSeesDisconnect(c) ==
    /\ handlers[c].pc = "monitoring"
    /\ handlers' = [handlers EXCEPT ![c].pc = "cleanup"]
    /\ UNCHANGED <<gui_vars, stop_event, threads, connected_devices, clients, not_gui>>

\* handle_client, lines 138-140
HandlerDiscardsDevice(c) ==
    /\ handlers[c].pc = "cleanup"
    /\ connected_devices' = IF handlers[c].registered
                            THEN connected_devices \ {handlers[c].ip}
                            ELSE connected_devices
    /\ handlers' = [handlers EXCEPT ![c].pc = "popping_client"]
    /\ UNCHANGED <<gui_vars, stop_event, threads, clients, not_gui>>

\* handle_client, lines 141-146
HandlerPopsClient(c) ==
    /\ handlers[c].pc = "popping_client"
    /\ clients' = IF handlers[c].registered
                  THEN [clients EXCEPT ![handlers[c].ip] = 0]
                  ELSE clients
    /\ handlers' = [handlers EXCEPT ![c].pc = "stopped"]
    /\ UNCHANGED <<gui_vars, stop_event, threads, connected_devices, not_gui>>

\* the steps of the backend's threads
MainStep == \E i \in Instances :
    MainClearsStopEvent(i) \/ MainStartsThreads(i) \/ MainSeesStop(i) \/ MainReturns(i)

UdpStep == \E i \in Instances : UdpSetup(i) \/ UdpSeesStop(i)

TcpStep == \E i \in Instances : TcpSetup(i) \/ TcpChecksStop(i) \/ TcpAcceptTimesOut(i)

AcceptStep == \E i \in Instances, c \in Conns, ip \in AdminIps : TcpAccepts(i, c, ip)

HandlerStep == \E c \in Conns :
    \/ HandlerAddsDevice(c) \/ HandlerAddsClient(c) \/ HandlerSeesStop(c)
    \/ HandlerDiscardsDevice(c) \/ HandlerPopsClient(c)

DisconnectStep == \E c \in Conns : HandlerSeesDisconnect(c)

NextBackend ==
    \/ start_backend
    \/ StartBackendCheck
    \/ stop_backend
    \/ MainStep
    \/ UdpStep
    \/ TcpStep
    \/ AcceptStep
    \/ HandlerStep
    \/ DisconnectStep

SpecBackend == Init /\ [][NextBackend]_vars

\* every started thread of the backend keeps being scheduled, and select,
\* accept and stop_event.wait all time out
ThreadStep == MainStep \/ UdpStep \/ TcpStep \/ HandlerStep

\* admin_connect.main is called: by the GUI's worker thread or as a script
MainCalled ==
    \E i \in Instances :
        /\ threads[i].main = "none"
        /\ \A j \in Instances : j < i => threads[j].main # "none"
        /\ threads' = [threads EXCEPT ![i].main = "started"]
        /\ UNCHANGED <<gui_vars, stop_event, handlers, connected_devices, clients,
                       not_gui>>

\* stop_event.set(): stop_backend (line 70) or main's KeyboardInterrupt
\* handler (line 256)
StopEventSet ==
    /\ ~stop_event
    /\ stop_event' = TRUE
    /\ UNCHANGED <<gui_vars, threads, handlers, connected_devices, clients, not_gui>>

NextShutdown ==
    \/ MainCalled
    \/ StopEventSet
    \/ MainStep
    \/ UdpStep
    \/ TcpStep
    \/ AcceptStep
    \/ HandlerStep
    \/ DisconnectStep

SpecShutdown == Init /\ [][NextShutdown]_vars /\ WF_vars(ThreadStep)

\* for the policy panel: a handler thread registers or unregisters a
\* connection from ip (handle_client, lines 103-104 and 141-142)
RegistryChanges ==
    \E ip \in AdminIps, c \in {0, 1} :
        /\ clients[ip] # c
        /\ clients' = [clients EXCEPT ![ip] = c]
        /\ UNCHANGED <<gui_vars, stop_event, threads, handlers, connected_devices,
                       not_gui>>

TextChangedStep == \E text \in PolicyTexts : TextChanged(text)

SelectTargetStep == \E row_ip \in GuiTargets : update_selected_target_from_table(row_ip)

NextSend ==
    \/ TextChangedStep
    \/ SelectTargetStep
    \/ PreviewPolicyBegin
    \/ PreviewPolicyFinish
    \/ SendPolicyBegin
    \/ SendPolicyRefused
    \/ SendPolicyRule
    \/ SendPolicyCommand
    \/ SendPolicyReenable
    \/ SendPolicyClear
    \/ start_backend
    \/ StartBackendCheck
    \/ stop_backend
    \/ RegistryChanges

SpecSend == Init /\ [][NextSend]_vars

(***************************************************************************)
(* The device's discovery client (device_connect.py): the listener thread  *)
(* and the connect_to_admin threads it spawns.                             *)
(***************************************************************************)
ConnectThreads == 1 .. MaxConnectThreads

not_device == <<compiler_vars, exec_vars, gui_vars, admin_vars, stream_vars>>

\* the threads whose socket is connected to the admin and not yet closed
OpenConnections == {t \in ConnectThreads : connect_threads[t] \in {"open", "monitoring"}}

\* listen_for_discovery, lines 39-49: a discovery packet arrives and, with
\* connected False, a connect_to_admin thread is started
ListenerSpawnsConnect ==
    /\ ~connected
    /\ \E t \in ConnectThreads :
          /\ connect_threads[t] = "none"
          /\ \A u \in ConnectThreads : u < t => connect_threads[u] # "none"
          /\ connect_threads' = [connect_threads EXCEPT ![t] = "connecting"]
    /\ UNCHANGED <<connected, tcp_sock, not_device>>

\* connect_to_admin, lines 61-62: sock.connect returns
ConnectSucceeds(t) ==
    /\ connect_threads[t] = "connecting"
    /\ connect_threads' = [connect_threads EXCEPT ![t] = "open"]
    /\ UNCHANGED <<connected, tcp_sock, not_device>>

\* connect_to_admin, lines 61-62 and 68-69: sock.connect raises
ConnectFails(t) ==
    /\ connect_threads[t] = "connecting"
    /\ connect_threads' = [connect_threads EXCEPT ![t] = "done"]
    /\ UNCHANGED <<connected, tcp_sock, not_device>>

\* connect_to_admin, lines 63-67
ConnectRecorded(t) ==
    /\ connect_threads[t] = "open"
    /\ tcp_sock' = t
    /\ connected' = TRUE
    /\ connect_threads' = [connect_threads EXCEPT ![t] = "monitoring"]
    /\ UNCHANGED not_device

\* monitor_connection, lines 79-90: the connection drops and sock.close()
MonitorCloses(t) ==
    /\ connect_threads[t] = "monitoring"
    /\ connect_threads' = [connect_threads EXCEPT ![t] = "closed"]
    /\ UNCHANGED <<connected, tcp_sock, not_device>>

\* monitor_connection, lines 91-93
MonitorClearsConnected(t) ==
    /\ connect_threads[t] = "closed"
    /\ connected' = FALSE
    /\ connect_threads' = [connect_threads EXCEPT ![t] = "done"]
    /\ UNCHANGED <<tcp_sock, not_device>>

NextDevice ==
    \/ ListenerSpawnsConnect
    \/ \E t \in ConnectThreads : ConnectSucceeds(t)
    \/ \E t \in ConnectThreads : ConnectFails(t)
    \/ \E t \in ConnectThreads : ConnectRecorded(t)
    \/ \E t \in ConnectThreads : MonitorCloses(t)
    \/ \E t \in ConnectThreads : MonitorClearsConnected(t)

SpecDevice == Init /\ [][NextDevice]_vars

(***************************************************************************)
(* Commands on their way from send_command (backend/admin_connect.py) to   *)
(* the device's monitor_connection (device_app/network_handler.py).  The   *)
(* connection is a byte stream: recv returns any non-empty prefix of what  *)
(* has been sent and not yet received.                                     *)
(***************************************************************************)
StreamCommands == {<<"a", "b">>, <<"c">>, <<"a", " ", "c">>}

not_stream == <<compiler_vars, exec_vars, gui_vars, admin_vars, device_vars>>

\* str.strip(): whitespace removed at both ends
RECURSIVE StripWhitespace(_)
StripWhitespace(s) ==
    IF s = <<>> THEN s
    ELSE IF Head(s) \in WhitespaceChars THEN StripWhitespace(Tail(s))
    ELSE IF s[Len(s)] \in WhitespaceChars
         THEN StripWhitespace(SubSeq(s, 1, Len(s) - 1))
    ELSE s

\* str.splitlines() of a text whose line breaks are "\n"
SplitLines(s) ==
    LET lines[i \in 0..Len(s)] ==
            IF i = 0 THEN <<>>
            ELSE IF s[i] = "\n"
                 THEN IF i > 1 /\ s[i - 1] # "\n" THEN lines[i - 1]
                      ELSE Append(lines[i - 1], <<>>)
            ELSE IF i > 1 /\ s[i - 1] # "\n"
                 THEN [lines[i - 1] EXCEPT ![Len(lines[i - 1])] = @ \o <<s[i]>>]
                 ELSE Append(lines[i - 1], <<s[i]>>)
    IN  lines[Len(s)]

\* the commands monitor_connection hands to execute_firewall_command for
\* one recv result (lines 37-47)
CommandsOfData(data) ==
    LET stripped == [i \in DOMAIN SplitLines(StripWhitespace(data)) |->
                        StripWhitespace(SplitLines(StripWhitespace(data))[i])]
    IN  SelectSeq(stripped, LAMBDA single_cmd : single_cmd # <<>>)

\* send_command, lines 213-215: the command and one newline are sent
SendCommandSendall ==
    /\ Len(sent_commands) < MaxSent
    /\ \E cmd_str \in StreamCommands :
          /\ wire' = wire \o cmd_str \o <<"\n">>
          /\ sent_commands' = Append(sent_commands, cmd_str)
    /\ UNCHANGED <<executed_commands, not_stream>>

\* monitor_connection, lines 32-52: one recv and the commands found in it
MonitorReceives ==
    /\ wire # <<>>
    /\ \E n \in 1 .. Len(wire) :
          /\ executed_commands' = executed_commands \o CommandsOfData(SubSeq(wire, 1, n))
          /\ wire' = SubSeq(wire, n + 1, Len(wire))
    /\ UNCHANGED <<sent_commands, not_stream>>

NextStream == SendCommandSendall \/ MonitorReceives

SpecStream == Init /\ [][NextStream]_vars

(***************************************************************************)
(* C1: after any sequence of add_alias and remove_alias_for_ip calls,      *)
(* failed calls included, the name->address map and the address->name map  *)
(* are exact inverses: n maps to a iff a maps to n.                        *)
(***************************************************************************)
MapsAreInverse(a2i, i2a) ==
    /\ \A i \in DOMAIN a2i : DictGet(i2a, a2i[i][2]) = a2i[i][1]
    /\ \A i \in DOMAIN i2a : DictGet(a2i, i2a[i][2]) = i2a[i][1]

C1_Bijection == MapsAreInverse(aliases_to_ip, ip_to_aliases)

\* an add_alias that displaced both an old name of the address and an old
\* address of the name has just run, and a failed call is also reachable
C1_Witness ==
    /\ last_call.op = "add_alias"
    /\ last_call.ret
    /\ Len(aliases_to_ip) = 2
    /\ DictGet(aliases_to_ip, <<"g", "w">>) = <<"1", ".", "2">>
    /\ DictGet(aliases_to_ip, <<"d", "b">>) = <<"2", ".", "1">>

(***************************************************************************)
(* C2 as stated: for every final target, source and destination with at    *)
(* least one of source/destination present, the chain is OUTPUT when       *)
(* target = source and a destination is present; INPUT when target =       *)
(* destination and a source is present; FORWARD when both are present and  *)
(* the target equals neither; with only a source, OUTPUT if target =       *)
(* source and INPUT otherwise; with only a destination, INPUT.             *)
(***************************************************************************)
Interpreted == stage = "interpreted" /\ interpreted # NoInterpreted

C2_ChainTableAsStated ==
    Interpreted =>
        LET t == interpreted.final_target_ip
            s == interpreted.source_ip
            d == interpreted.destination_ip
            c == interpreted.chain
        IN  (s # NoneS \/ d # NoneS) =>
              /\ (t = s /\ d # NoneS) => c = "OUTPUT"
              /\ (t = d /\ s # NoneS) => c = "INPUT"
              /\ (s # NoneS /\ d # NoneS /\ t # s /\ t # d) => c = "FORWARD"
              /\ (s # NoneS /\ d = NoneS) => c = (IF t = s THEN "OUTPUT" ELSE "INPUT")
              /\ (s = NoneS /\ d # NoneS) => c = "INPUT"

(***************************************************************************)
(* C2 as amended: the same table over the final target (the target after   *)
(* any preferred-target override), with the rows applied in the stated     *)
(* order: INPUT for target = destination with a source present only when   *)
(* the target is not also the source; target = source = destination gives  *)
(* OUTPUT.                                                                 *)
(***************************************************************************)
C2_ChainTable ==
    Interpreted =>
        LET t == interpreted.final_target_ip
            s == interpreted.source_ip
            d == interpreted.destination_ip
            c == interpreted.chain
        IN  (s # NoneS \/ d # NoneS) =>
              /\ (t = s /\ d # NoneS) => c = "OUTPUT"
              /\ (t = d /\ s # NoneS /\ t # s) => c = "INPUT"
              /\ (s # NoneS /\ d # NoneS /\ t # s /\ t # d) => c = "FORWARD"
              /\ (s # NoneS /\ d = NoneS) => c = (IF t = s THEN "OUTPUT" ELSE "INPUT")
              /\ (s = NoneS /\ d # NoneS) => c = "INPUT"

\* the override moved the target off the destination, and the chain follows
\* the final target: FORWARD, where the parsed target would give INPUT
C2_Witness ==
    /\ stage = "interpreted"
    /\ rule_origin = "parsed"
    /\ nlp_rule.source_ip = "ip2"
    /\ nlp_rule.destination_ip = "ip3"
    /\ nlp_rule.target_device_ip = "ip3"
    /\ preferred_target_ip = "ip4"
    /\ interpreted.final_target_ip = "ip4"
    /\ interpreted.chain = "FORWARD"

(***************************************************************************)
(* C3: when the clause named its target with on/at, a preferred target     *)
(* never replaces it, also when the explicit target is the same address as *)
(* the source or the destination.                                          *)
(***************************************************************************)
C3_ExplicitTargetKept ==
    /\ (stage = "interpreted" /\ rule_origin = "parsed" /\ target_explicit) =>
          interpreted.final_target_ip = nlp_rule.target_device_ip
    /\ (stage = "generated" /\ target_explicit) =>
          generated.final_target_ip = nlp_rule.target_device_ip

(***************************************************************************)
(* C4: with a preferred target supplied, a rule without a target, or with  *)
(* a target only defaulted from the source or the destination, gets the    *)
(* preferred target; without a preferred target the final target is the    *)
(* parsed target unchanged.                                                *)
(***************************************************************************)
TargetOnlyDefaulted ==
    /\ nlp_rule.target_device_ip # NoneS
    /\ IF rule_origin = "parsed"
       THEN ~target_explicit
       ELSE \/ nlp_rule.target_device_ip = nlp_rule.destination_ip
            \/ (nlp_rule.destination_ip = NoneS
                /\ nlp_rule.target_device_ip = nlp_rule.source_ip)

C4_PreferredOverride ==
    stage = "interpreted" =>
        /\ (preferred_target_ip # NoneS
            /\ (nlp_rule.target_device_ip = NoneS \/ TargetOnlyDefaulted))
           => interpreted.final_target_ip = preferred_target_ip
        /\ preferred_target_ip = NoneS
           => interpreted.final_target_ip = nlp_rule.target_device_ip

\* a target defaulted to the destination, with a source present, is replaced
C4_Witness ==
    /\ stage = "interpreted"
    /\ rule_origin = "parsed"
    /\ ~target_explicit
    /\ nlp_rule.source_ip = "ip1"
    /\ nlp_rule.destination_ip = "ip2"
    /\ nlp_rule.target_device_ip = "ip2"
    /\ preferred_target_ip = "ip4"
    /\ interpreted.final_target_ip = "ip4"

(***************************************************************************)
(* C5: a clause with one address governed by on/at, one by from and one by *)
(* to gets the on/at address as target, the from address as source and the *)
(* to address as destination, in whatever order the three mentions appear. *)
(***************************************************************************)
Governed(preps) ==
    {i \in DOMAIN doc : IsIp(doc[i]) /\ i > 1 /\ doc[i - 1] \in preps}

OneOfEachRole ==
    /\ Cardinality({i \in DOMAIN doc : IsIp(doc[i])}) = 3
    /\ Cardinality(Governed(TARGET_DEVICE_PREPS)) = 1
    /\ Cardinality(Governed(SOURCE_IP_PREPS)) = 1
    /\ Cardinality(Governed(DESTINATION_IP_PREPS)) = 1

C5_RolesInAnyOrder ==
    (stage = "parsed" /\ rule_origin = "parsed" /\ nlp_rule # EmptyRule
     /\ OneOfEachRole) =>
        /\ \A i \in Governed(TARGET_DEVICE_PREPS) : nlp_rule.target_device_ip = doc[i]
        /\ \A i \in Governed(SOURCE_IP_PREPS) : nlp_rule.source_ip = doc[i]
        /\ \A i \in Governed(DESTINATION_IP_PREPS) : nlp_rule.destination_ip = doc[i]

\* the three mentions in the order to, from, at, with distinct addresses
C5_Witness ==
    /\ stage = "parsed"
    /\ doc = <<"deny", "to", "ip3", "from", "ip2", "at", "ip1">>
    /\ nlp_rule.target_device_ip = "ip1"
    /\ nlp_rule.source_ip = "ip2"
    /\ nlp_rule.destination_ip = "ip3"

(***************************************************************************)
(* C6 as stated: a clause yields no rule and no command whenever no target *)
(* can be established or neither a source nor a destination is resolved,   *)
(* also when the target was given with on/at.                              *)
(***************************************************************************)
ClauseRoles == AssignIpRoles(ExtractIpEntities(doc))

ClauseLacksTargetOrAddresses ==
    \/ ClauseRoles.target_device_ip = NoneS
    \/ (ClauseRoles.source_ip = NoneS /\ ClauseRoles.destination_ip = NoneS)

C6_NoRuleWithoutAddresses ==
    (stage = "parsed" /\ rule_origin \in {"parsed", "legacy"}) =>
        (ClauseLacksTargetOrAddresses => nlp_rule = EmptyRule)

(***************************************************************************)
(* C6 as amended: a clause yields no rule (and so no command) whenever no  *)
(* target can be established; nlp.py, the parser behind policy_engine.py,  *)
(* also yields no rule when neither a source nor a destination is          *)
(* resolved, so parse_and_generate_commands emits a command only for rules *)
(* with a target and an address.  backend/nlp.py does not: a clause with   *)
(* an action verb and an on/at target but no source and no destination     *)
(* yields a rule from its parse_single and from                            *)
(* determine_final_target_and_chain, for that target.                      *)
(***************************************************************************)
RuleHasNoAddresses == nlp_rule.source_ip = NoneS /\ nlp_rule.destination_ip = NoneS

ExplicitTargetOnly ==
    /\ FindPrimaryActionIdx(doc) # 0
    /\ target_explicit
    /\ ClauseRoles.source_ip = NoneS
    /\ ClauseRoles.destination_ip = NoneS

C6_RejectedClauses ==
    /\ (stage = "parsed" /\ rule_origin = "legacy") =>
          (ClauseLacksTargetOrAddresses => nlp_rule = EmptyRule)
    /\ (stage = "parsed" /\ rule_origin = "parsed") =>
          /\ ClauseRoles.target_device_ip = NoneS => nlp_rule = EmptyRule
          /\ ExplicitTargetOnly =>
                /\ nlp_rule # EmptyRule
                /\ nlp_rule.target_device_ip = ClauseRoles.target_device_ip
    /\ (stage = "interpreted" /\ rule_origin = "parsed" /\ RuleHasNoAddresses) =>
          /\ interpreted # NoInterpreted
          /\ interpreted.final_target_ip = nlp_rule.target_device_ip
    /\ stage = "generated" =>
          /\ generated # NoTuple
          /\ generated.final_target_ip # NoneS
          /\ ~RuleHasNoAddresses

\* the interpreter has resolved a rule whose target was named with on/at and
\* that has neither source nor destination
C6_Witness ==
    /\ stage = "interpreted"
    /\ rule_origin = "parsed"
    /\ target_explicit
    /\ RuleHasNoAddresses
    /\ interpreted.final_target_ip = "ip1"
    /\ preferred_target_ip = "ip4"

(***************************************************************************)
(* C7: when two writer calls run concurrently with their dictionary reads, *)
(* deletions and writes interleaved, the final registry equals the result  *)
(* of running the two calls in one of the two sequential orders, and the   *)
(* two maps are still exact inverses.                                      *)
(***************************************************************************)
ApplyCall(reg, c) ==
    LET r == IF c.op = "add_alias"
             THEN AddAliasResult(reg[1], reg[2], c.ip, c.name)
             ELSE RemoveAliasResult(reg[1], reg[2], c.ip)
    IN  <<r.a2i, r.i2a>>

SameRegistry(x, y) ==
    DictItems(x[1]) = DictItems(y[1]) /\ DictItems(x[2]) = DictItems(y[2])

C7_WritersSerializable ==
    (pc["w1"] = "done" /\ pc["w2"] = "done") =>
        LET now == <<aliases_to_ip, ip_to_aliases>>
        IN  /\ \/ SameRegistry(now, ApplyCall(ApplyCall(start_reg, call["w1"]), call["w2"]))
               \/ SameRegistry(now, ApplyCall(ApplyCall(start_reg, call["w2"]), call["w1"]))
            /\ MapsAreInverse(aliases_to_ip, ip_to_aliases)

(***************************************************************************)
(* C8: a get_all_aliases() snapshot taken while an add_alias or            *)
(* remove_alias_for_ip call is in progress on another thread equals the    *)
(* name->address map as it was before that call or as it is after the call *)
(* completes, never a state in between.                                    *)
(***************************************************************************)
C8_SnapshotBeforeOrAfter ==
    (pc["w1"] = "done" /\ snapshot # NoneT /\ snapshot_during) =>
        \/ DictItems(snapshot) = DictItems(start_reg[1])
        \/ DictItems(snapshot) = DictItems(aliases_to_ip)

(***************************************************************************)
(* C9: alias substitution is idempotent: for every registry state and      *)
(* every input text, preprocess_and_resolve_aliases applied to its own     *)
(* output returns that output unchanged.                                   *)
(***************************************************************************)
C9_SubstitutionIdempotent ==
    resolve_stage = "twice" => resolved_again = resolved_text

(***************************************************************************)
(* C10: when one alias name contains another as a whole word, each         *)
(* occurrence of the longer name is replaced by the longer name's address  *)
(* and the shorter name only where it stands as a whole word outside such  *)
(* an occurrence, whatever the letter case of the text and never inside a  *)
(* larger word: the output is the cleaned text with every whole-word       *)
(* occurrence replaced in one pass, the longest name first at each         *)
(* position.                                                               *)
(***************************************************************************)
ContainsAsWord(long_key, short_key) ==
    /\ Len(short_key) < Len(long_key)
    /\ \E i \in DOMAIN long_key : AliasMatchesAt(short_key, long_key, i)

FirstMatchingKey(keys, text, i) ==
    LET hits == SelectSeq(keys, LAMBDA k : AliasMatchesAt(k, text, i))
    IN  IF hits = <<>> THEN <<>> ELSE Head(hits)

RECURSIVE ReplaceInOnePass(_, _, _, _)
ReplaceInOnePass(keys, map, text, i) ==
    IF i > Len(text) THEN <<>>
    ELSE LET k == FirstMatchingKey(keys, text, i)
         IN  IF k # <<>>
             THEN DictGet(map, k) \o ReplaceInOnePass(keys, map, text, i + Len(k))
             ELSE <<text[i]>> \o ReplaceInOnePass(keys, map, text, i + 1)

C10_LongerAliasFirst ==
    (/\ resolve_stage # "none"
     /\ \E x, y \in DictKeys(aliases_to_ip) : ContainsAsWord(x, y)) =>
        resolved_text =
            NormalizeSpaces(ReplaceInOnePass(SortedAliasKeys(aliases_to_ip),
                                             aliases_to_ip, CleanRawText(raw_text), 1))
ValidSents == {i \in DOMAIN sents : ParseSingle(sents[i]) # EmptyRule}

RECURSIVE NonEmptyResults(_)
NonEmptyResults(ss) ==
    IF ss = <<>> THEN <<>>
    ELSE LET r == ParseSingle(Head(ss))
         IN  (IF r # EmptyRule THEN <<r>> ELSE <<>>) \o NonEmptyResults(Tail(ss))

C12_OneCallPerClauseInOrder ==
    /\ cmds_pc = "loop" =>
          /\ parse_single_calls = SubSeq(sents, 1, sent_i - 1)
          /\ parsed_rules = NonEmptyResults(SubSeq(sents, 1, sent_i - 1))
    /\ cmds_pc = "returned" =>
          /\ parse_single_calls = sents
          /\ parsed_rules = NonEmptyResults(sents)

C12_Witness ==
    /\ cmds_pc = "returned"
    /\ sents = << <<"deny", "from", "ip1">>, <<"from", "ip1">>,
                  <<"allow", "ssh", "to", "ip2", "on", "ip3">> >>
    /\ Len(parse_single_calls) = 3
    /\ Len(parsed_rules) = 2
    /\ parsed_rules[1].action = "deny"
    /\ parsed_rules[2].action = "allow"

(***************************************************************************)
(* C13: every clause that produces no rule is reported to the caller with  *)
(* a reason code of the taxonomy; a clause with an action verb and no      *)
(* address is reported as NoAddressContext.  What reaches the caller is    *)
(* the returned list.                                                      *)
(***************************************************************************)
ReasonCodes ==
    {"NoActionFound", "NoEnforcementTarget", "NoAddressContext",
     "UnknownService", "CatalogUnavailable"}

ReportedReasons(returned, clause) ==
    {returned[j].reason : j \in {k \in DOMAIN returned :
                                    /\ "reason" \in DOMAIN returned[k]
                                    /\ "clause" \in DOMAIN returned[k]
                                    /\ returned[k].clause = clause}}

C13_RejectedClauseHasReason ==
    cmds_pc = "returned" =>
        \A i \in DOMAIN sents :
            ParseSingle(sents[i]) = EmptyRule =>
                /\ ReportedReasons(parsed_rules, sents[i]) \cap ReasonCodes # {}
                /\ (FindPrimaryActionIdx(sents[i]) # 0
                    /\ ExtractIpEntities(sents[i]) = <<>>) =>
                       "NoAddressContext" \in ReportedReasons(parsed_rules, sents[i])
(***************************************************************************)
(* C14: every rule that leaves the target/chain stage has an enforcement   *)
(* device: determine_final_target_and_chain returns None when neither the  *)
(* rule nor the preferred target supplies a target, a clause without any   *)
(* address never enters the loop of parse_and_generate_commands, and every *)
(* tuple that function emits has a target and at least one command.        *)
(***************************************************************************)
C14_EnforcementDeviceNeverEmpty ==
    /\ stage = "interpreted" =>
          /\ interpreted # NoInterpreted =>
                /\ interpreted.final_target_ip # NoneS
                /\ interpreted.chain # NoneS
          /\ (nlp_rule.target_device_ip = NoneS /\ preferred_target_ip = NoneS) =>
                interpreted = NoInterpreted
    /\ (stage = "parsed" /\ rule_origin = "legacy"
        /\ ClauseRoles.target_device_ip = NoneS) => nlp_rule = EmptyRule
    /\ stage = "generated" =>
          /\ nlp_rule.target_device_ip # NoneS
          /\ generated # NoTuple =>
                /\ generated.final_target_ip # NoneS
                /\ generated.commands # <<>>
    /\ stage # "generated" => generated = NoTuple

\* a rule without a target was interpreted without a preferred target
C14_Witness ==
    /\ stage = "interpreted"
    /\ nlp_rule.target_device_ip = NoneS
    /\ nlp_rule.source_ip # NoneS
    /\ preferred_target_ip = NoneS
    /\ interpreted = NoInterpreted
(***************************************************************************)
(* The builder claims are about a call of build_commands that has          *)
(* returned; a usable rule has a chain and an action of the vocabulary.    *)
(***************************************************************************)
Built == mapper_call = "build_commands"

RuleUsable ==
    /\ Truthy(interpreted_rule.chain)
    /\ Truthy(interpreted_rule.action)
    /\ LowerWord(interpreted_rule.action)
          \in {"block", "deny", "drop", "reject", "allow", "permit", "accept"}

RuleHasIp == Truthy(interpreted_rule.source_ip) \/ Truthy(interpreted_rule.destination_ip)

ExpectedJump ==
    IF LowerWord(interpreted_rule.action) \in {"allow", "permit", "accept"}
    THEN "ACCEPT" ELSE "DROP"

\* iptables -A <chain> [-s <source>] [-d <destination>]
ExpectedHead ==
    <<"iptables", "-A", interpreted_rule.chain>>
    \o (IF Truthy(interpreted_rule.source_ip)
        THEN <<"-s", interpreted_rule.source_ip>> ELSE <<>>)
    \o (IF Truthy(interpreted_rule.destination_ip)
        THEN <<"-d", interpreted_rule.destination_ip>> ELSE <<>>)

\* the part of a command between the addresses and -j
ServicePartOf(cmd) == SubSeq(cmd, Len(ExpectedHead) + 1, Len(cmd) - 2)

HasHeadAndJump(cmd) ==
    /\ Len(cmd) >= Len(ExpectedHead) + 2
    /\ SubSeq(cmd, 1, Len(ExpectedHead)) = ExpectedHead
    /\ SubSeq(cmd, Len(cmd) - 1, Len(cmd)) = <<"-j", ExpectedJump>>

InIgnoreSet(service_name) ==
    \/ service_name = NoneS
    \/ service_name = ""
    \/ LowerWord(service_name) \in {"any", "all", "traffic"}

\* the entries of the service in the loaded catalog, <<>> if it has none
CatalogEntries(service_name) ==
    IF service_name = NoneS \/ service_mappings.is_none THEN <<>>
    ELSE LookupParams(service_mappings.dict, LowerWord(service_name)).items

(***************************************************************************)
(* C15: for a service found in the catalog with N protocol/port entries,   *)
(* build_commands returns exactly N commands, one per entry in catalog     *)
(* order, all with the same chain, source, destination and action and      *)
(* differing only in the -p / --dport part.                                *)
(***************************************************************************)
C15_OneCommandPerCatalogEntry ==
    (/\ Built /\ RuleUsable
     /\ ~InIgnoreSet(interpreted_rule.service)
     /\ CatalogEntries(interpreted_rule.service) # <<>>) =>
        LET entries == CatalogEntries(interpreted_rule.service)
            cmds == commands_for_this_rule
        IN  /\ Len(cmds) = Len(entries)
            /\ \A i \in DOMAIN cmds :
                  /\ HasHeadAndJump(cmds[i])
                  /\ IF entries[i].proto = NoneS THEN ServicePartOf(cmds[i]) = <<>>
                     ELSE /\ Len(ServicePartOf(cmds[i])) \in {2, 4}
                          /\ SubSeq(ServicePartOf(cmds[i]), 1, 2)
                                = <<"-p", entries[i].proto>>

C15_Witness ==
    /\ Built /\ RuleUsable
    /\ interpreted_rule.service = "dns"
    /\ Len(commands_for_this_rule) = 2
    /\ ServicePartOf(commands_for_this_rule[1]) = <<"-p", "udp", "--dport", "53">>
    /\ ServicePartOf(commands_for_this_rule[2]) = <<"-p", "tcp", "--dport", "53">>

(***************************************************************************)
(* C16: if the service is in the ignore-set ("any", "all", "traffic",      *)
(* empty or None), build_commands emits exactly one command, without -p    *)
(* and --dport, for every chain and action and with or without a source    *)
(* or destination address.                                                 *)
(***************************************************************************)
C16_IgnoredServiceOneCommand ==
    (Built /\ RuleUsable /\ InIgnoreSet(interpreted_rule.service)) =>
        commands_for_this_rule = <<ExpectedHead \o <<"-j", ExpectedJump>>>>

(***************************************************************************)
(* C17: for a service neither in the catalog nor in the ignore-set,        *)
(* build_commands emits one command with the addresses and the action and  *)
(* no -p / --dport if a source or destination is present, and no command   *)
(* if neither is.                                                          *)
(***************************************************************************)
ServiceInCatalog(service_name) ==
    /\ ~service_mappings.is_none
    /\ LowerWord(service_name) \in DOMAIN service_mappings.dict

C17_UnknownService ==
    (/\ Built /\ RuleUsable
     /\ ~InIgnoreSet(interpreted_rule.service)
     /\ ~ServiceInCatalog(interpreted_rule.service)) =>
        IF RuleHasIp
        THEN commands_for_this_rule = <<ExpectedHead \o <<"-j", ExpectedJump>>>>
        ELSE commands_for_this_rule = <<>>

C17_Witness ==
    /\ Built /\ RuleUsable
    /\ interpreted_rule.service = "unknownservice"
    /\ service_mappings = LoadedMappings
    /\ ~RuleHasIp
    /\ commands_for_this_rule = <<>>

(***************************************************************************)
(* C18: --dport appears in a command only if the catalog entry's protocol  *)
(* is tcp or udp and the entry defines a port; for an entry with another   *)
(* protocol the command carries -p <protocol> and no --dport, also when    *)
(* the entry defines a port.                                               *)
(***************************************************************************)
HasToken(cmd, tok) == \E k \in DOMAIN cmd : cmd[k] = tok

C18_DportOnlyForTcpUdp ==
    (Built /\ RuleUsable) =>
        LET entries == IF InIgnoreSet(interpreted_rule.service) THEN <<>>
                       ELSE CatalogEntries(interpreted_rule.service)
            cmds == commands_for_this_rule
        IN  IF entries = <<>>
            THEN \A i \in DOMAIN cmds : ~HasToken(cmds[i], "--dport")
            ELSE \A i \in DOMAIN cmds :
                    /\ HasToken(cmds[i], "--dport") =>
                          /\ LowerWord(entries[i].proto) \in {"tcp", "udp"}
                          /\ entries[i].dport # NoneS
                          /\ ServicePartOf(cmds[i])
                                = <<"-p", entries[i].proto, "--dport", entries[i].dport>>
                    /\ (entries[i].proto # NoneS
                        /\ LowerWord(entries[i].proto) \notin {"tcp", "udp"}) =>
                          ServicePartOf(cmds[i]) = <<"-p", entries[i].proto>>

\* an entry with a port and a protocol that has no ports
C18_Witness ==
    /\ Built /\ RuleUsable
    /\ interpreted_rule.service = "gre"
    /\ Len(commands_for_this_rule) = 1
    /\ ServicePartOf(commands_for_this_rule[1]) = <<"-p", "gre">>

(***************************************************************************)
(* C19: every emitted command has its arguments in the order -A <chain>,   *)
(* -s <source> if present, -d <destination> if present, -p <protocol> and  *)
(* --dport <port> if applicable, -j <target>, with ACCEPT for allow,       *)
(* permit, accept and DROP for block, deny, drop, reject; an action        *)
(* outside the vocabulary or a missing chain yields no command.            *)
(***************************************************************************)
WellOrdered(cmd) ==
    /\ HasHeadAndJump(cmd)
    /\ LET part == ServicePartOf(cmd)
       IN  \/ part = <<>>
           \/ Len(part) = 2 /\ part[1] = "-p"
           \/ Len(part) = 4 /\ part[1] = "-p" /\ part[3] = "--dport"

C19_ArgumentOrder ==
    Built =>
        IF RuleUsable
        THEN \A i \in DOMAIN commands_for_this_rule :
                WellOrdered(commands_for_this_rule[i])
        ELSE commands_for_this_rule = <<>>

C19_Witness ==
    /\ Built
    /\ interpreted_rule.action = "ALLOW"
    /\ commands_for_this_rule =
          << <<"iptables", "-A", "FORWARD", "-s", "ip1", "-d", "ip2",
               "-p", "tcp", "--dport", "22", "-j", "ACCEPT">> >>

(***************************************************************************)
(* C20: once a load of the service catalog has failed, get_service_params  *)
(* returns not-found for every name, on that call and on every later one,  *)
(* and build_commands returns what it returns for a service absent from a  *)
(* loaded catalog.                                                         *)
(***************************************************************************)
AsAbsentService(rule) ==
    IF ServiceIsIgnored(rule.service) THEN rule
    ELSE [rule EXCEPT !.service = "unknownservice"]

C20_CatalogUnavailable ==
    load_failed =>
        /\ service_mappings = EmptyMappings
        /\ mapper_call = "get_service_params" => params_returned = ParamsNone
        /\ Built =>
              commands_for_this_rule =
                  BuildCommands(AsAbsentService(interpreted_rule),
                                LoadedMappings, "ok").commands

\* the file is back, the load had failed before, and ssh is still unknown
C20_Witness ==
    /\ load_failed
    /\ services_file = "ok"
    /\ Built /\ RuleUsable
    /\ interpreted_rule.service = "ssh"
    /\ interpreted_rule.source_ip = "ip1"
    /\ Len(commands_for_this_rule) = 1
    /\ ServicePartOf(commands_for_this_rule[1]) = <<>>
(***************************************************************************)
(* C21: when add_alias(a2, n) succeeds and n was bound to a different      *)
(* address a1, afterwards n resolves to a2 and a1 has no alias; when       *)
(* add_alias(a, n2) succeeds and a was bound to a different name n1,       *)
(* afterwards n1 resolves to nothing and a's alias is the lowercase form   *)
(* of n2; bindings that involve neither the name nor the address of the    *)
(* call are unchanged.  Names are the same name when they are equal        *)
(* ignoring case.                                                          *)
(***************************************************************************)
AddSucceeded == last_call.op = "add_alias" /\ last_call.ret

NameWasElsewhere ==
    /\ DictHas(reg_before[1], Lower(last_call.name))
    /\ DictGet(reg_before[1], Lower(last_call.name)) # last_call.ip

AddressHadOtherName ==
    /\ DictHas(reg_before[2], last_call.ip)
    /\ DictGet(reg_before[2], last_call.ip) # Lower(last_call.name)

C21_DisplacedLinksDropped ==
    AddSucceeded =>
        LET n  == Lower(last_call.name)
            a  == last_call.ip
            a1 == DictGet(reg_before[1], n)
            n1 == DictGet(reg_before[2], a)
        IN  /\ NameWasElsewhere =>
                /\ get_ip_for_alias(last_call.name) = a
                /\ get_alias_for_ip(a1) = NoneT
            /\ AddressHadOtherName =>
                /\ get_ip_for_alias(n1) = NoneT
                /\ get_alias_for_ip(a) = n
            /\ \A e \in DictItems(reg_before[1]) :
                (e[1] # n /\ e[2] # a) =>
                    /\ get_ip_for_alias(e[1]) = e[2]
                    /\ get_alias_for_ip(e[2]) = e[1]
            /\ \A e \in DictItems(aliases_to_ip) :
                e[1] # n => e \in DictItems(reg_before[1])
            /\ \A e \in DictItems(ip_to_aliases) :
                e[1] # a => e \in DictItems(reg_before[2])

\* one call displaced both the old address of the name and the old name of
\* the address while a third binding stood by
C21_Witness ==
    /\ AddSucceeded
    /\ NameWasElsewhere
    /\ AddressHadOtherName
    /\ Len(reg_before[1]) = 3
    /\ Len(aliases_to_ip) = 2

(***************************************************************************)
(* C22: add_alias returns False exactly when the name or the address is    *)
(* empty, and then both maps are left unchanged; for every non-empty name  *)
(* and non-empty address it returns True whatever the registry held.       *)
(***************************************************************************)
C22_AddFailsOnlyOnEmpty ==
    last_call.op = "add_alias" =>
        /\ (~last_call.ret) <=> (last_call.ip = <<>> \/ last_call.name = <<>>)
        /\ (~last_call.ret) =>
            /\ aliases_to_ip = reg_before[1]
            /\ ip_to_aliases = reg_before[2]

\* an empty name was refused while the registry held two bindings
C22_Witness ==
    /\ last_call.op = "add_alias"
    /\ ~last_call.ret
    /\ last_call.name = <<>>
    /\ last_call.ip # <<>>
    /\ Len(reg_before[1]) = 2
    /\ Len(aliases_to_ip) = 2

(***************************************************************************)
(* C23: remove_alias_for_ip(a) returns True exactly when a has an alias;   *)
(* afterwards a has no alias and the removed name resolves to nothing,     *)
(* while every other binding is unchanged; when a has no alias it returns  *)
(* False and leaves the registry unchanged.                                *)
(***************************************************************************)
C23_RemoveExactlyTheLink ==
    last_call.op = "remove_alias_for_ip" =>
        LET a   == last_call.ip
            had == DictHas(reg_before[2], a)
            n   == DictGet(reg_before[2], a)
        IN  /\ last_call.ret <=> had
            /\ had =>
                /\ get_alias_for_ip(a) = NoneT
                /\ get_ip_for_alias(n) = NoneT
                /\ DictItems(aliases_to_ip) = DictItems(reg_before[1]) \ {<<n, a>>}
                /\ DictItems(ip_to_aliases) = DictItems(reg_before[2]) \ {<<a, n>>}
            /\ ~had =>
                /\ aliases_to_ip = reg_before[1]
                /\ ip_to_aliases = reg_before[2]

\* one of three bindings was removed
C23_Witness ==
    /\ last_call.op = "remove_alias_for_ip"
    /\ last_call.ret
    /\ Len(reg_before[1]) = 3
    /\ Len(aliases_to_ip) = 2
    /\ Len(ip_to_aliases) = 2

(***************************************************************************)
(* C24: alias names are matched case-insensitively and stored lowercase:   *)
(* after add_alias(a, n), get_ip_for_alias(m) returns a for every m equal  *)
(* to n ignoring case, get_alias_for_ip(a) returns the lowercase form of   *)
(* n, and adding a name that differs from an existing name only in letter  *)
(* case rebinds the existing entry instead of creating a second one.       *)
(***************************************************************************)
LookupNames ==
    NameInputs \cup {<<"G", "W">>, <<"g", "W">>, <<"D", "b">>, <<"d", "B">>, <<"S">>}

EntriesNamed(a2i, n) == {i \in DOMAIN a2i : Lower(a2i[i][1]) = Lower(n)}

C24_NamesIgnoreCase ==
    AddSucceeded =>
        /\ \A m \in LookupNames :
            Lower(m) = Lower(last_call.name) => get_ip_for_alias(m) = last_call.ip
        /\ get_alias_for_ip(last_call.ip) = Lower(last_call.name)
        /\ Cardinality(EntriesNamed(aliases_to_ip, last_call.name)) = 1
        /\ \A i \in DOMAIN aliases_to_ip : aliases_to_ip[i][1] = Lower(aliases_to_ip[i][1])

\* 'Gw' was added while 'gw' named another address: still one entry for it
C24_Witness ==
    /\ AddSucceeded
    /\ last_call.name = <<"G", "w">>
    /\ DictHas(reg_before[1], <<"g", "w">>)
    /\ DictGet(reg_before[1], <<"g", "w">>) # last_call.ip
    /\ ~DictHas(reg_before[2], last_call.ip)
    /\ Len(aliases_to_ip) = Len(reg_before[1])
    /\ get_ip_for_alias(<<"g", "W">>) = last_call.ip

(***************************************************************************)
(* C25: whenever add_alias displaces an existing link (the name was bound  *)
(* to another address, or the address had another name) the displacement   *)
(* is observable to the caller, through the return value or a log record   *)
(* emitted for that call; a call that displaces nothing produces no such   *)
(* signal.  The return value is True for every successful call, so the     *)
(* signal can only be one of the two records about an old link.            *)
(***************************************************************************)
Displaced == AddSucceeded /\ (NameWasElsewhere \/ AddressHadOtherName)

DisplacementSignalled ==
    \E i \in DOMAIN log_records : log_records[i].line \in {31, 38}

C25_DisplacementObservable ==
    last_call.op = "add_alias" => (Displaced <=> DisplacementSignalled)

(***************************************************************************)
(* C26: an alias substitution in flight is unaffected by later registry    *)
(* changes: preprocess_and_resolve_aliases reads the registry once through *)
(* get_all_aliases(), which returns a copy, so add_alias and               *)
(* remove_alias_for_ip calls made after that read change neither the copy  *)
(* nor the text produced, and changing the returned copy does not change   *)
(* the registry.                                                           *)
(***************************************************************************)
C26_SubstitutionUsesItsCopy ==
    /\ flight_pc = "substituting" => ObjectItems(flight_aliases) = reg_at_read
    /\ flight_pc = "returned" =>
        flight_result = PreprocessAndResolveAliases(flight_text, reg_at_read)
    /\ registry_kept

\* a call returned the text of the registry it had read although the
\* registry changed during its loop in a way that changes the text, and a
\* caller had changed a copy
C26_Witness ==
    /\ flight_pc = "returned"
    /\ aliases_to_ip # reg_at_read
    /\ flight_result # CleanRawText(flight_text)
    /\ flight_result # PreprocessAndResolveAliases(flight_text, aliases_to_ip)
    /\ held_copy # NoObject
    /\ held_copy.dict # aliases_to_ip

(***************************************************************************)
(* C27: parse_single takes as the action the last token in clause order    *)
(* whose lemma is in the verb vocabulary, whatever action verbs precede    *)
(* it; if the clause contains no such token it returns the empty result.   *)
(***************************************************************************)
Parsed == stage = "parsed" /\ rule_origin = "parsed"

VerbPositions == {i \in DOMAIN doc : doc[i] \in ACTION_VERBS}

Fillers == {"all", "any", "traffic", "access", "incoming", "outgoing", "queries"}

ChosenVerb == CHOOSE i \in VerbPositions : \A j \in VerbPositions : j <= i

RECURSIVE StatedSearch(_, _, _)
StatedSearch(d, i, step) ==
    IF i < 1 \/ i > Len(d) THEN NoneS
    ELSE IF IsIp(d[i]) \/ d[i] \in BOUNDARY_PREPS THEN NoneS
    ELSE IF IsAlpha(d[i]) /\ d[i] \notin Fillers THEN d[i]
    ELSE StatedSearch(d, i + step, step)

StatedService(d, v) ==
    IF StatedSearch(d, v + 1, 1) # NoneS THEN StatedSearch(d, v + 1, 1)
    ELSE IF StatedSearch(d, v - 1, -1) # NoneS THEN StatedSearch(d, v - 1, -1)
    ELSE "any"

ForwardStop(d, v) ==
    LET stops == {i \in (v + 1) .. Len(d) :
                     IsIp(d[i]) \/ d[i] \in BOUNDARY_PREPS \/ ~IsAlpha(d[i])}
    IN  IF stops = {} THEN Len(d) + 1
        ELSE CHOOSE i \in stops : \A j \in stops : i <= j

ForwardCandidates(d, v) ==
    {i \in (v + 1) .. (ForwardStop(d, v) - 1) :
        d[i] \notin StopWords /\ d[i] \notin Fillers}

BackwardWords(d, v) ==
    {i \in 1 .. (v - 1) :
        /\ ~IsIp(d[i])
        /\ d[i] \notin BOUNDARY_PREPS
        /\ d[i] \notin StopWords
        /\ IsAlpha(d[i])}

BackwardStrong(d, v) ==
    {i \in BackwardWords(d, v) : d[i] \notin Fillers \cup {"ensure", "please"}}

Nearest(d, v, positions) ==
    d[CHOOSE i \in positions :
          \A j \in positions : (IF i > v THEN i - v ELSE v - i)
                                  <= (IF j > v THEN j - v ELSE v - j)]

SearchedService(d, v) ==
    IF ForwardCandidates(d, v) # {} THEN Nearest(d, v, ForwardCandidates(d, v))
    ELSE IF BackwardStrong(d, v) # {} THEN Nearest(d, v, BackwardStrong(d, v))
    ELSE IF BackwardWords(d, v) # {} THEN Nearest(d, v, BackwardWords(d, v))
    ELSE "any"

AddressPositions == {i \in DOMAIN doc : IsIp(doc[i])}

First(positions) == CHOOSE i \in positions : \A j \in positions : i <= j

FirstAddress(preps) ==
    IF Governed(preps) = {} THEN NoneS ELSE doc[First(Governed(preps))]

\* the mentions no loop has taken or discarded: every on/at mention but the
\* first, and every mention without a role preposition
RemainingPositions ==
    {i \in AddressPositions :
        /\ i \notin Governed(SOURCE_IP_PREPS)
        /\ i \notin Governed(DESTINATION_IP_PREPS)
        /\ (i \in Governed(TARGET_DEVICE_PREPS) =>
                i # First(Governed(TARGET_DEVICE_PREPS)))}

NoSourceNoDestination ==
    Governed(SOURCE_IP_PREPS) = {} /\ Governed(DESTINATION_IP_PREPS) = {}

LoneBareMention ==
    /\ Cardinality(RemainingPositions) = 1
    /\ RemainingPositions \cap Governed(TARGET_DEVICE_PREPS) = {}
    /\ NoSourceNoDestination

C29_LoneBareMentionIsSource ==
    (Parsed /\ nlp_rule # EmptyRule) =>
        /\ nlp_rule.source_ip =
              IF LoneBareMention THEN doc[First(RemainingPositions)]
              ELSE FirstAddress(SOURCE_IP_PREPS)
        /\ nlp_rule.destination_ip = FirstAddress(DESTINATION_IP_PREPS)

(***************************************************************************)
(* C29, corrected: a remaining mention becomes the source exactly when it  *)
(* is the only remaining mention (a mention without preposition or a       *)
(* surplus on/at mention), its address is not the on/at target, and        *)
(* neither a source nor a destination was assigned; in every other case    *)
(* the remaining mentions are given no role in the rule.                   *)
(***************************************************************************)
LoneRemainingMention ==
    /\ Cardinality(RemainingPositions) = 1
    /\ doc[First(RemainingPositions)] # FirstAddress(TARGET_DEVICE_PREPS)
    /\ NoSourceNoDestination

C29_LoneRemainingMentionIsSource ==
    (Parsed /\ nlp_rule # EmptyRule) =>
        /\ nlp_rule.source_ip =
              IF LoneRemainingMention THEN doc[First(RemainingPositions)]
              ELSE FirstAddress(SOURCE_IP_PREPS)
        /\ nlp_rule.destination_ip = FirstAddress(DESTINATION_IP_PREPS)

\* 'deny on ip1 at ip2': the surplus on/at mention is the source
C29_Witness ==
    /\ Parsed
    /\ doc = <<"deny", "on", "ip1", "at", "ip2">>
    /\ nlp_rule.target_device_ip = "ip1"
    /\ nlp_rule.source_ip = "ip2"

(***************************************************************************)
(* C30: when no address in the clause is governed by on/at, the parsed     *)
(* target equals the destination if a destination was assigned and         *)
(* otherwise equals the source; when some address is governed by on/at,    *)
(* the parsed target is the first such address in clause order, whatever   *)
(* the source and destination are.                                         *)
(***************************************************************************)
C30_TargetFinalization ==
    (Parsed /\ nlp_rule # EmptyRule) =>
        IF Governed(TARGET_DEVICE_PREPS) = {}
        THEN nlp_rule.target_device_ip =
                 IF nlp_rule.destination_ip # NoneS
                 THEN nlp_rule.destination_ip
                 ELSE nlp_rule.source_ip
        ELSE nlp_rule.target_device_ip = doc[First(Governed(TARGET_DEVICE_PREPS))]

\* source and destination present, no on/at: the target is the destination
C30_Witness ==
    /\ Parsed
    /\ doc = <<"allow", "ssh", "to", "ip2", "from", "ip1">>
    /\ nlp_rule.source_ip = "ip1"
    /\ nlp_rule.target_device_ip = "ip2"

(***************************************************************************)
(* C31: parse_and_generate_commands in policy_engine.py infers the chain   *)
(* by the same table as the chain resolver: for every (final target,       *)
(* source, destination) its commands are rules of the chain                *)
(* determine_final_target_and_chain gives, INPUT in particular when only a *)
(* destination is present, whether or not the target is the destination.   *)
(***************************************************************************)
Generated == stage = "generated" /\ generated # NoTuple

C31_EngineChainIsResolverChain ==
    Generated =>
        \A i \in DOMAIN generated.commands :
            generated.commands[i][3] =
                DetermineChain(generated.final_target_ip, generated.source_ip,
                               generated.destination_ip)

(***************************************************************************)
(* C32: for a clause whose only address X has no governing preposition,    *)
(* compiled with a preferred target P different from X: the source is X,   *)
(* the parsed target defaults to X, the final target is P, the chain is    *)
(* INPUT, and every generated command is an INPUT rule with -s X that is   *)
(* grouped under enforcement device P.                                     *)
(***************************************************************************)
LoneBareAddress ==
    /\ Cardinality(AddressPositions) = 1
    /\ Governed(BOUNDARY_PREPS) = {}

\* the rule such a clause is parsed to, by either parser
BareAddressRule ==
    /\ nlp_rule # EmptyRule
    /\ rule_origin \in {"parsed", "legacy"}
    /\ ~target_explicit
    /\ nlp_rule.source_ip # NoneS
    /\ nlp_rule.target_device_ip = nlp_rule.source_ip
    /\ nlp_rule.destination_ip = NoneS

OtherPreferred == preferred_target_ip \notin {NoneS, nlp_rule.source_ip}

InputRuleFrom(cmd, x) ==
    /\ Len(cmd) >= 5
    /\ SubSeq(cmd, 1, 5) = <<"iptables", "-A", "INPUT", "-s", x>>
    /\ \A i \in DOMAIN cmd : cmd[i] # "-d"

C32_BareAddressUnderPreferred ==
    /\ (stage = "parsed" /\ rule_origin \in {"parsed", "legacy"}
        /\ nlp_rule # EmptyRule /\ LoneBareAddress) =>
            /\ nlp_rule.source_ip = doc[First(AddressPositions)]
            /\ BareAddressRule
    /\ (stage = "interpreted" /\ BareAddressRule /\ OtherPreferred) =>
            /\ interpreted.final_target_ip = preferred_target_ip
            /\ interpreted.chain = "INPUT"
            /\ interpreted.source_ip = nlp_rule.source_ip
            /\ LET built == BuildCommands(interpreted, LoadedMappings, "ok").commands
               IN  /\ built # <<>>
                   /\ \A i \in DOMAIN built : InputRuleFrom(built[i], nlp_rule.source_ip)
    /\ (stage = "generated" /\ BareAddressRule /\ OtherPreferred) =>
            /\ generated.final_target_ip = preferred_target_ip
            /\ generated.commands # <<>>
            /\ \A i \in DOMAIN generated.commands :
                   InputRuleFrom(generated.commands[i], nlp_rule.source_ip)

\* 'deny ip2' compiled with preferred target ip1
C32_Witness ==
    /\ stage = "generated"
    /\ BareAddressRule
    /\ nlp_rule.source_ip = "ip2"
    /\ preferred_target_ip = "ip1"
    /\ generated.final_target_ip = "ip1"
    /\ generated.commands = <<<<"iptables", "-A", "INPUT", "-s", "ip2", "-j", "DROP">>>>

(***************************************************************************)
(* C33: execute_firewall_command runs a subprocess only for a command      *)
(* string that starts with "iptables " and whose remaining text consists   *)
(* solely of letters, digits, whitespace and . - / = : * ; for any other   *)
(* string it returns (False, message) and executes nothing; no exception   *)
(* escapes the function for any input.                                     *)
(***************************************************************************)
WellFormedCommand(s) ==
    /\ Len(s) >= 9
    /\ SubSeq(s, 1, 9) = <<"i", "p", "t", "a", "b", "l", "e", "s", " ">>
    /\ \A i \in 10..Len(s) :
          \/ s[i] \in AsciiLetters \cup AsciiDigits \cup WhitespaceChars
          \/ s[i] \in {".", "-", "/", "=", ":", "*"}

C33_OnlyWellFormedCommandsRun ==
    exec_call.called =>
        /\ exec_call.ran => WellFormedCommand(exec_call.command_string)
        /\ ~WellFormedCommand(exec_call.command_string) =>
              /\ ~exec_call.ran
              /\ exec_call.cmd_list = <<>>
              /\ Len(exec_call.returned) = 2
              /\ exec_call.returned[1] = FALSE
        /\ exec_call.escaped = "none"
        /\ Len(exec_call.returned) = 2

C33_Witness ==
    /\ exec_call.called
    /\ exec_call.command_string = IptablesPrefix \o <<"A", " ", "z">>
    /\ exec_call.ran
    /\ exec_call.cmd_list = <<Sudo, IPTABLES_PATH, <<"A">>, <<"z">>>>
    /\ exec_call.returned[1] = TRUE

(***************************************************************************)
(* C34: send_policy attempts each previewed command at most once and in    *)
(* preview order; no command of a rule whose target was not in clients     *)
(* when the rule was reached is sent; after a ConnectionError no further   *)
(* command of that rule is sent, while every other rule is still reached   *)
(* and, if found connected, attempted; and when send_policy returns the    *)
(* preview is cleared.                                                     *)
(***************************************************************************)
Attempts == {i \in DOMAIN send_log : send_log[i].kind = "cmd"}

RulesReached == {i \in DOMAIN send_log : send_log[i].kind = "rule"}

AttemptedOnceInOrder ==
    \A i, j \in Attempts :
        i < j => \/ send_log[i].rule < send_log[j].rule
                 \/ /\ send_log[i].rule = send_log[j].rule
                    /\ send_log[i].cmd < send_log[j].cmd

AbsentTargetGetsNothing ==
    \A i \in RulesReached :
        ~send_log[i].in_clients =>
            \A j \in Attempts : send_log[j].rule # send_log[i].rule

ErrorEndsTheRule ==
    \A i, j \in Attempts :
        (i < j /\ send_log[i].outcome = "ConnectionError")
            => send_log[j].rule # send_log[i].rule

SendLoopDone == gui_pc \in {"send_154", "send_163"}

EveryRuleStillReached ==
    SendLoopDone =>
        \A r \in DOMAIN send_frame.list :
            \E i \in RulesReached :
                /\ send_log[i].rule = r
                /\ (send_log[i].is_connected /\ send_frame.list[r].commands # <<>>)
                      => \E j \in Attempts :
                            send_log[j].rule = r /\ send_log[j].cmd = 1

SendPolicyReturns == gui_pc \in {"send_100", "send_163"} /\ gui_pc' = "idle"

C34_SendPolicyDispatch ==
    /\ [](/\ AttemptedOnceInOrder
          /\ AbsentTargetGetsNothing
          /\ ErrorEndsTheRule
          /\ EveryRuleStillReached)
    /\ [][SendPolicyReturns => (previewed_commands' = <<>> /\ ~send_btn')]_vars

C34_Witness ==
    /\ gui_pc = "send_163"
    /\ Len(send_frame.list) = 2
    /\ Len(send_frame.list[1].commands) = 2
    /\ send_frame.list[1].final_target_ip # send_frame.list[2].final_target_ip
    /\ \E i, j \in Attempts :
          /\ send_log[i].rule = 1 /\ send_log[i].cmd = 1
          /\ send_log[i].outcome = "ConnectionError"
          /\ send_log[j].rule = 2 /\ send_log[j].outcome = "sent"
    /\ previewed_commands # <<>>

(***************************************************************************)
(* C39: whenever the Send button is enabled, previewed_commands is not     *)
(* empty and is what the generator yields for the text now in the input    *)
(* field and the target now selected in the device table.                  *)
(***************************************************************************)
C39_SendEnabledMeansCurrentPreview ==
    send_btn =>
        /\ previewed_commands # <<>>
        /\ previewed_commands = GuiGenerate(nl_input, selected_target_actual_ip)

(***************************************************************************)
(* C36: while a handler is between its registration and its cleanup,       *)
(* clients[ip] is that handler's connection and ip is in                   *)
(* connected_devices.                                                      *)
(***************************************************************************)
C36_RegisteredHandlerOwnsEntry ==
    \A c \in Conns :
        handlers[c].pc = "monitoring" =>
            /\ clients[handlers[c].ip] = c
            /\ handlers[c].ip \in connected_devices

(***************************************************************************)
(* C38: at most one backend instance runs at a time; in particular no      *)
(* thread of a stopped instance still runs once a later instance has been  *)
(* started.                                                                *)
(***************************************************************************)
C38_OneBackendInstance ==
    \A i, j \in Instances : (InstanceRuns(i) /\ InstanceRuns(j)) => i = j

(***************************************************************************)
(* C37: if stop_event is set and stays set, then the UDP sender, the TCP   *)
(* server and every handler thread eventually end, and connected_devices   *)
(* and clients end up empty.                                               *)
(***************************************************************************)
Ended(where) == where \in {"none", "stopped"}

BackendThreadsEnded ==
    /\ \A i \in Instances : Ended(threads[i].udp) /\ Ended(threads[i].tcp)
    /\ \A c \in Conns : Ended(handlers[c].pc)

RegistriesEmpty ==
    /\ connected_devices = {}
    /\ \A ip \in AdminIps : clients[ip] = 0

C37_StopEndsEveryThread ==
    <>[]stop_event => <>[](BackendThreadsEnded /\ RegistriesEmpty)

C37_Witness ==
    /\ stop_event
    /\ threads[1].udp = "stopped"
    /\ threads[1].tcp = "stopped"
    /\ \A c \in Conns : handlers[c].pc = "stopped" /\ handlers[c].registered
    /\ RegistriesEmpty

(***************************************************************************)
(* C35: the device client never has more than one TCP connection to the    *)
(* admin open at a time.                                                   *)
(***************************************************************************)
C35_AtMostOneConnection == Cardinality(OpenConnections) <= 1

(***************************************************************************)
(* C40: once everything sent has been received, the device has handed to   *)
(* execute_firewall_command exactly the commands given to send_command,    *)
(* each once and in order, however recv split the stream.                  *)
(***************************************************************************)
C40_EachCommandExecutedOnce == wire = <<>> => executed_commands = sent_commands

====
